---- MODULE Spec2Model ----
(***************************************************************************)
(* The realtime interview relay of backend/app/routers/realtime.py and the *)
(* session state of backend/app/services/realtime_service.py.              *)
(*                                                                         *)
(* Two coroutines, proxy_client_to_openai and proxy_openai_to_client, run  *)
(* under one asyncio.gather and share one RealtimeSession.  A coroutine    *)
(* runs without interruption between two awaits; every action below is the *)
(* code of one coroutine from one await to the next.  A send puts its      *)
(* frame on the socket, or raises when the socket is closed.  JSON objects  *)
(* are functions from keys to values; an absent key is a key outside the   *)
(* function's domain.  realtime_websocket, the handler of one connection,  *)
(* builds the session, starts the two coroutines and tears down after them.*)
(***************************************************************************)
EXTENDS Integers, Sequences, FiniteSets, TLC

\* Frames received over both sockets in one run of the model.
MaxEvents == 3

\* Python's None.
Null == "null"

\* RealtimeSession.__init__ defaults.
DefaultTotalQuestions == 5
DefaultMinPrimaryRequired == 3
DefaultMinDialogMs == 60000

\* Words per minute assumed by the transcript duration estimate.
WordsPerMinute == 150

\* score_and_finalize: least overall_score at which "maybe" stays "maybe".
MaybeScoreFloor == 70

---------------------------------------------------------------------------
\* dict helpers

EmptyDict == << >>

Get(d, k, default) == IF k \in DOMAIN d THEN d[k] ELSE default

Put(d, k, v) == [x \in (DOMAIN d) \cup {k} |-> IF x = k THEN v ELSE d[x]]

Max(a, b) == IF a >= b THEN a ELSE b

Min(a, b) == IF a <= b THEN a ELSE b

\* list[i] of Python for an int i: negative indices count from the end;
\* out of range raises IndexError, rendered as [ok |-> FALSE].
PyIndex(list, i) ==
    IF i >= 0 /\ i < Len(list) THEN [ok |-> TRUE, value |-> list[i + 1]]
    ELSE IF i < 0 /\ i >= -Len(list) THEN [ok |-> TRUE, value |-> list[Len(list) + i + 1]]
    ELSE [ok |-> FALSE]

\* A socket that delivers the latest frame first.
SendAhead(sent, frame, open) == IF open THEN <<frame>> \o sent ELSE sent

\* A send on a socket: the frame is on the wire, or, the socket being closed,
\* the call raised.
Send(sent, frame, open) == IF open THEN Append(sent, frame) ELSE sent

---------------------------------------------------------------------------
\* text

\* A str is a sequence of characters.
LowerChar(c) ==
    CASE c = "R" -> "r"
      [] c = "U" -> "u"
      [] c = "E" -> "e"
      [] c = "N" -> "n"
      [] OTHER -> c

Lower(str) == [i \in 1..Len(str) |-> LowerChar(str[i])]

StartsWith(str, prefix) ==
    /\ Len(str) >= Len(prefix)
    /\ \A i \in 1..Len(prefix) : str[i] = prefix[i]

\* The normalisation that falls back to Russian, the constructor's language.
NormalizeLangDefaultRu(data) ==
    LET lang_raw == Lower(Get(data, "lang", << >>))
    IN IF StartsWith(lang_raw, <<"r", "u">>) THEN "ru"
       ELSE IF StartsWith(lang_raw, <<"e", "n">>) THEN "en" ELSE "ru"

\* The language of session.update_lang: (data.get("lang") or "").lower(),
\* then "ru" for a value starting with ru, "en" for everything else.
NormalizeLang(data) ==
    LET lang_raw == Lower(Get(data, "lang", << >>))
    IN IF StartsWith(lang_raw, <<"r", "u">>) THEN "ru"
       ELSE IF StartsWith(lang_raw, <<"e", "n">>) THEN "en" ELSE "en"

VoiceFor(lang) == IF lang = "ru" THEN "verse" ELSE "alloy"

\* A transcript of n words.
Transcript(n) == [i \in 1..n |-> "word"]

\* int((words / 150) * 60 * 1000) for a transcript whose split() has
\* `words` parts (exact for the multiples of 150 used here).
TranscriptMs(transcript) == (Len(transcript) * 60 * 1000) \div WordsPerMinute

---------------------------------------------------------------------------
\* scenario

NonPrimary == {"intro", "final"}

Question(competence) == [competence |-> competence, question |-> "text"]

\* realtime_websocket: total_questions = max(1, primary_count or len(scenario))
\* for a non-empty scenario, the constructor's default otherwise.
PrimaryCount(scenario) ==
    Cardinality({i \in 1..Len(scenario) :
        /\ scenario[i].competence # ""
        /\ scenario[i].competence \notin NonPrimary})

TotalQuestions(scenario) ==
    IF Len(scenario) = 0 THEN DefaultTotalQuestions
    ELSE Max(1, IF PrimaryCount(scenario) # 0 THEN PrimaryCount(scenario)
                ELSE Len(scenario))

\* A vacancy's scenario with one primary question between intro and final.
OnePrimary == << Question("intro"), Question("stack"), Question("final") >>

\* The sessions a run starts with.  The first is what realtime_websocket
\* builds without a vacancy: no scenario, the constructor's thresholds (the
\* only ones this repository assigns).  The thresholds are plain attributes
\* of the session the two coroutines are handed, and the other two sessions
\* carry lower ones: min_primary_required=1 with min_dialog_ms=0, and
\* min_primary_required=1 with the constructor's min_dialog_ms.  What they
\* reach in a few frames the first session reaches after three primary
\* questions and a minute of speech.
Sessions ==
    { [scenario |-> << >>,
       min_primary_required |-> DefaultMinPrimaryRequired,
       min_dialog_ms |-> DefaultMinDialogMs],
      [scenario |-> OnePrimary,
       min_primary_required |-> 1, min_dialog_ms |-> 0],
      [scenario |-> OnePrimary,
       min_primary_required |-> 1, min_dialog_ms |-> DefaultMinDialogMs] }

\* RealtimeSession after realtime_websocket has built it.
NewSession(scenario, th) ==
    [ scenario |-> scenario,
      conversation_items |-> << >>,
      scores |-> << >>,
      total_questions |-> TotalQuestions(scenario),
      current_question |-> 0,
      context |-> EmptyDict,
      active_response_id |-> Null,
      assistant_speaking |-> FALSE,
      question_marked |-> FALSE,
      answered_primary |-> 0,
      user_speaking_ms |-> 0,
      lang |-> "ru",
      min_primary_required |-> th.min_primary_required,
      min_dialog_ms |-> th.min_dialog_ms ]

---------------------------------------------------------------------------
\* tool calls

\* json.loads of a tool call's arguments text: the object it denotes, or
\* an exception for text that is no JSON.
JsonText(object) == [object |-> object]

MalformedJson == [garbage |-> "{not json"]

JsonLoads(text) ==
    IF "object" \in DOMAIN text THEN [ok |-> TRUE, value |-> text.object]
    ELSE [ok |-> FALSE]

\* session.context.get("interview_completed")
InterviewCompleted(s) == Get(s.context, "interview_completed", FALSE)

EndInterviewAccept(s, arguments) ==
    LET overall_score == Get(arguments, "overall_score", 50)
        strengths == Get(arguments, "strengths", << >>)
        weaknesses == Get(arguments, "weaknesses", << >>)
        recommendation == Get(arguments, "recommendation", "maybe")
        passed == recommendation \in {"hire", "maybe"}
        c1 == Put(s.context, "interview_completed", TRUE)
        c2 == Put(c1, "overall_score", overall_score)
        c3 == Put(c2, "strengths", strengths)
        c4 == Put(c3, "weaknesses", weaknesses)
        c5 == Put(c4, "recommendation", recommendation)
        c6 == Put(c5, "passed", passed)
    IN [ session |-> [s EXCEPT !.context = c6],
         result |-> [status |-> "success", message |-> "completed",
                     overall_score |-> overall_score, passed |-> passed] ]

\* end_interview with the check of user_speaking_ms left out.
EndInterviewNoDialogGate(s, arguments) ==
    IF s.answered_primary < s.min_primary_required
    THEN [ session |-> s,
           result |-> [status |-> "ignored", message |-> "too_early",
                       need |-> s.min_primary_required - s.answered_primary] ]
    ELSE EndInterviewAccept(s, arguments)

\* end_interview without the check of the primary questions.
EndInterviewNoPrimaryGate(s, arguments) ==
    IF s.user_speaking_ms < s.min_dialog_ms
    THEN [ session |-> s,
           result |-> [status |-> "ignored", message |-> "not_enough_dialog",
                       need |-> (s.min_dialog_ms - s.user_speaking_ms) \div 1000] ]
    ELSE EndInterviewAccept(s, arguments)

\* The threshold checks of end_interview.
EndInterview(s, arguments) ==
    IF s.answered_primary < s.min_primary_required
    THEN [ session |-> s,
           result |-> [status |-> "ignored", message |-> "too_early",
                       need |-> s.min_primary_required - s.answered_primary] ]
    ELSE IF s.user_speaking_ms < s.min_dialog_ms
    THEN [ session |-> s,
           result |-> [status |-> "ignored", message |-> "not_enough_dialog",
                       need |-> (s.min_dialog_ms - s.user_speaking_ms) \div 1000] ]
    ELSE EndInterviewAccept(s, arguments)

\* An accumulator that keeps the latest score only.
EvaluateAnswerLatestOnly(s, arguments) ==
    [ session |-> [s EXCEPT !.scores =
                       << [question |-> s.current_question,
                           score |-> Get(arguments, "score", 50),
                           reasoning |-> Get(arguments, "reasoning", "")] >>],
      result |-> [status |-> "success", message |-> "saved"] ]

\* evaluate_answer: the score is appended to session.scores.
EvaluateAnswer(s, arguments) ==
    [ session |-> [s EXCEPT !.scores = Append(@,
                       [question |-> s.current_question,
                        score |-> Get(arguments, "score", 50),
                        reasoning |-> Get(arguments, "reasoning", "")])],
      result |-> [status |-> "success", message |-> "saved"] ]

\* A handler that acknowledges the tools it does not know.
HandleFunctionCallLenient(s, function_name, arguments) ==
    IF function_name = "evaluate_answer" THEN EvaluateAnswer(s, arguments)
    ELSE IF function_name = "end_interview" THEN EndInterview(s, arguments)
    ELSE [ session |-> s,
           result |-> [status |-> "success", message |-> "unknown_function"] ]

\* handle_function_call: the session afterwards and the tool result.
handle_function_call(s, function_name, arguments) ==
    IF function_name = "evaluate_answer" THEN EvaluateAnswer(s, arguments)
    ELSE IF function_name = "end_interview" THEN EndInterview(s, arguments)
    ELSE [ session |-> s,
           result |-> [status |-> "error", message |-> "unknown_function"] ]

\* The decision without the score floor of "maybe".
ScoreAndFinalizeNoFloor(s) ==
    LET overall_score == Get(s.context, "overall_score", 0)
        recommendation == Get(s.context, "recommendation", "maybe")
        passed == Get(s.context, "passed", FALSE)
        decision == IF recommendation = "hire" THEN "hired"
                    ELSE IF recommendation = "maybe" THEN "maybe" ELSE "rejected"
    IN [ decision |-> decision,
         overall_score |-> overall_score,
         redirect_url |-> [score |-> overall_score,
                           passed |-> IF passed THEN 1 ELSE 0,
                           decision |-> decision],
         recommendation |-> recommendation ]

\* score_and_finalize: the decision and the redirect target.
score_and_finalize(s) ==
    LET overall_score == Get(s.context, "overall_score", 0)
        recommendation == Get(s.context, "recommendation", "maybe")
        passed == Get(s.context, "passed", FALSE)
        decision == IF recommendation = "hire" THEN "hired"
                    ELSE IF recommendation = "maybe" /\ overall_score >= MaybeScoreFloor
                         THEN "maybe" ELSE "rejected"
    IN [ decision |-> decision,
         overall_score |-> overall_score,
         redirect_url |-> [score |-> overall_score,
                           passed |-> IF passed THEN 1 ELSE 0,
                           decision |-> decision],
         recommendation |-> recommendation ]

---------------------------------------------------------------------------
\* state

VARIABLES
    session,        \* the RealtimeSession both coroutines share
    pc_client,      \* proxy_client_to_openai: where it stands
    pc_upstream,    \* proxy_openai_to_client: where it stands
    c_data,         \* proxy_client_to_openai: data, the frame in hand
    c_sent,         \* proxy_client_to_openai: whether its last send returned
    u_data,         \* proxy_openai_to_client: data, the frame in hand
    u_result,       \* proxy_openai_to_client: result of handle_function_call
    openai_sent,    \* frames sent on openai_ws, in order
    client_sent,    \* frames sent on client_ws, in order
    client_open,    \* the browser's socket is open
    openai_open,    \* the upstream socket is open
    n_events,       \* frames and closes that arrived so far over both sockets
    gated,          \* event ids of the audio appends the half-duplex gate dropped
    at_created,     \* the progress counters as the last response.created found them
    h_pc,           \* realtime_websocket: where it stands
    realtime_sessions,  \* the registry: ids of the sessions it holds
    db,             \* the database session and the candidate's stored tags
    openai_ws,      \* realtime_websocket: openai_ws, None until connected
    log,            \* what logger.error was called with
    saved,          \* the outcomes of the calls of save_interview_results
    conns,          \* every connection's realtime_websocket: where it stands
                    \* and the session_id it drew
    found           \* what get_session_info answered last

vars == << session, pc_client, pc_upstream, c_data, c_sent, u_data, u_result,
           openai_sent, client_sent, client_open, openai_open, n_events, gated,
           at_created, h_pc, realtime_sessions, db, openai_ws, log, saved,
           conns, found >>

\* The connections the process serves side by side.
MaxConns == 3
Conns == 1 .. MaxConns

\* No connection has been accepted yet.
\* realtime_session = None, where session ids are compared.
NoSession == 0

NoConnections == [c \in Conns |-> [pc |-> "idle", session_id |-> NoSession]]

\* get_session_info has not been asked.
NotAsked == [session_id |-> NoSession, status |-> NoSession]

\* The variables of realtime_websocket that neither coroutine touches.
Handler == <<h_pc, realtime_sessions, db, openai_ws, log, saved, conns, found>>

Progress(s, sent) ==
    [answered_primary |-> s.answered_primary,
     current_question |-> s.current_question,
     progress_updates |->
         Cardinality({i \in DOMAIN sent : Get(sent[i], "type", "") = "progress.update"})]

\* What realtime_websocket sent before it started the two coroutines.
SetupOpenai ==
    << [type |-> "session.update", by |-> "setup"],
       [type |-> "conversation.item.create", by |-> "setup"],
       [type |-> "response.create", by |-> "setup",
        response |-> [instructions |-> "first_question"]] >>

SetupClient(s) ==
    << [type |-> "session.created",
        session |-> [total_questions |-> s.total_questions]] >>

\* The one session id of the run (a uuid4 in the code).
SessionId == "sid"

\* The state in which asyncio.gather starts the two coroutines on session s.
Relaying(s) ==
    /\ session = s
    /\ pc_client = "recv"
    /\ pc_upstream = "recv"
    /\ c_data = EmptyDict
    /\ c_sent = TRUE
    /\ u_data = EmptyDict
    /\ u_result = EmptyDict
    /\ openai_sent = SetupOpenai
    /\ client_sent = SetupClient(session)
    /\ client_open = TRUE
    /\ openai_open = TRUE
    /\ n_events = 0
    /\ gated = {}
    /\ at_created = Progress(session, client_sent)
    /\ h_pc = "gather"
    /\ realtime_sessions = {SessionId}
    /\ db = [session |-> "open", tags |-> EmptyDict]
    /\ openai_ws = "ws"
    /\ log = {}
    /\ saved = << >>
    /\ conns = NoConnections
    /\ found = NotAsked

Init == \E cfg \in Sessions : Relaying(NewSession(cfg.scenario, cfg))

---------------------------------------------------------------------------
\* frames the browser sends

ClientBodies ==
    { [type |-> "session.update_lang", lang |-> <<"R", "U">>],
      [type |-> "input_audio_buffer.append"],
      [type |-> "response.cancel"],
      [type |-> "response.create"],
      [type |-> "stt.user_final", ms |-> 60000],
      [type |-> "conversation.item.create"] }

\* The frames that can arrive as the n-th frame of the run.
ClientFrames(n) == { Put(b, "event_id", n) : b \in ClientBodies }

---------------------------------------------------------------------------
\* proxy_client_to_openai

ClientLoop ==
    <<pc_upstream, u_data, u_result, at_created, client_open, openai_open, Handler>>

\* The gate with its test of assistant_speaking inverted.
HalfDuplexGateInverted(etype, s) ==
    etype = "input_audio_buffer.append" /\ ~s.assistant_speaking

\* The half-duplex gate: the microphone stream is not taken while the
\* assistant speaks.
HalfDuplexGate(etype, s) ==
    etype = "input_audio_buffer.append" /\ s.assistant_speaking

\* The create branch without its test of active_response_id.
CancelBeforeCreateNever(etype, s) == FALSE

\* One active response: a response.create cancels the one in flight first.
CancelBeforeCreate(etype, s) ==
    etype = "response.create" /\ s.active_response_id # Null

\* The duration counted in whole seconds.
SpeechMsWholeSeconds(data) ==
    LET ms == Get(data, "ms", 0)
    IN IF ms > 0 THEN (ms \div 1000) * 1000 ELSE 0

\* What stt.user_final adds to user_speaking_ms: ms = data.get("ms", 0),
\* counted when ms > 0.
SpeechMs(data) ==
    LET ms == Get(data, "ms", 0)
    IN IF ms > 0 THEN ms ELSE 0

\* One frame read and handled up to the first await that has code after it.
ClientRecv(data) ==
    LET ok == openai_open IN
    /\ pc_client = "recv"
    /\ client_open
    /\ n_events < MaxEvents
    /\ n_events' = n_events + 1
    /\ c_data' = data
    /\ UNCHANGED ClientLoop
    /\ LET etype == Get(data, "type", Null) IN
       IF etype = "session.update_lang" THEN
            LET lang == NormalizeLang(data) IN
            /\ session' = [session EXCEPT !.context = Put(@, "lang", lang),
                                          !.lang = lang]
            /\ openai_sent' = Send(openai_sent,
                   [type |-> "session.update",
                    session |-> [voice |-> VoiceFor(lang),
                                 input_audio_transcription |->
                                     [model |-> "gpt-4o-mini-transcribe",
                                      language |-> IF lang = "ru" THEN "ru" ELSE "en"]]],
                   ok)
            /\ c_sent' = ok
            /\ pc_client' = IF ok THEN "lang_ack" ELSE "failed"
            /\ UNCHANGED <<client_sent, gated>>
       ELSE IF HalfDuplexGate(etype, session) THEN
            /\ gated' = gated \cup {data.event_id}
            /\ pc_client' = "recv"
            /\ UNCHANGED <<session, openai_sent, client_sent, c_sent>>
       ELSE IF etype = "response.cancel" THEN
            /\ openai_sent' = Send(openai_sent, [type |-> "response.cancel"], ok)
            /\ c_sent' = ok
            /\ pc_client' = "cancel_finally"
            /\ UNCHANGED <<session, client_sent, gated>>
       ELSE IF CancelBeforeCreate(etype, session) THEN
            /\ openai_sent' = Send(openai_sent, [type |-> "response.cancel"], ok)
            /\ c_sent' = ok
            /\ pc_client' = "forward"
            /\ UNCHANGED <<session, client_sent, gated>>
       ELSE IF etype = "stt.user_final" THEN
            /\ session' = [session EXCEPT !.user_speaking_ms = @ + SpeechMs(data)]
            /\ pc_client' = "recv"
            /\ UNCHANGED <<openai_sent, client_sent, gated, c_sent>>
       ELSE
            /\ openai_sent' = Send(openai_sent, data, ok)
            /\ c_sent' = ok
            /\ pc_client' = IF ok THEN "recv" ELSE "failed"
            /\ UNCHANGED <<session, client_sent, gated>>

\* After the session.update went upstream: the acknowledgement to the browser.
ClientLangAck ==
    LET ok == client_open IN
    /\ pc_client = "lang_ack"
    /\ client_sent' = Send(client_sent,
           [type |-> "session.lang.locked", lang |-> NormalizeLang(c_data)], ok)
    /\ c_sent' = ok
    /\ pc_client' = IF ok THEN "recv" ELSE "failed"
    /\ UNCHANGED <<session, c_data, openai_sent, n_events, gated>>
    /\ UNCHANGED ClientLoop

\* The flags cleared after the send rather than in a finally block: a send
\* that raises leaves them as they are.
ClientCancelNoFinally ==
    /\ pc_client = "cancel_finally"
    /\ session' = IF c_sent
                  THEN [session EXCEPT !.assistant_speaking = FALSE,
                                       !.active_response_id = Null]
                  ELSE session
    /\ pc_client' = IF c_sent THEN "recv" ELSE "failed"
    /\ UNCHANGED <<c_data, c_sent, openai_sent, client_sent, n_events, gated>>
    /\ UNCHANGED ClientLoop

\* The finally block of the response.cancel branch, run when the send is over.
ClientCancelFinally ==
    /\ pc_client = "cancel_finally"
    /\ session' = [session EXCEPT !.assistant_speaking = FALSE,
                                  !.active_response_id = Null]
    /\ pc_client' = IF c_sent THEN "recv" ELSE "failed"
    /\ UNCHANGED <<c_data, c_sent, openai_sent, client_sent, n_events, gated>>
    /\ UNCHANGED ClientLoop

\* The response.create in hand goes upstream once the cancel before it is over.
ClientForward ==
    LET ok == openai_open IN
    /\ pc_client = "forward"
    /\ openai_sent' = Send(openai_sent, c_data, ok)
    /\ c_sent' = ok
    /\ pc_client' = IF ok THEN "recv" ELSE "failed"
    /\ UNCHANGED <<session, c_data, client_sent, n_events, gated>>
    /\ UNCHANGED ClientLoop

\* receive_json raises WebSocketDisconnect: the browser went away.
ClientDisconnect ==
    /\ pc_client = "recv"
    /\ ~client_open
    /\ pc_client' = "closed"
    /\ UNCHANGED <<session, c_data, c_sent, openai_sent, client_sent, n_events, gated>>
    /\ UNCHANGED ClientLoop

\* receive_json raises on a frame that is no JSON, or data.get on a frame that
\* is no object: the except clause ends the loop.
ClientMalformed ==
    /\ pc_client = "recv"
    /\ client_open
    /\ n_events < MaxEvents
    /\ n_events' = n_events + 1
    /\ pc_client' = "failed"
    /\ UNCHANGED <<session, c_data, c_sent, openai_sent, client_sent, gated>>
    /\ UNCHANGED ClientLoop

---------------------------------------------------------------------------
\* frames the upstream endpoint sends

FunctionCall(name, arguments) ==
    [type |-> "response.function_call", call_id |-> "call",
     function |-> [name |-> name, arguments |-> arguments]]

UpstreamBodies ==
    { [type |-> "response.created", response |-> [id |-> "r1"]],
      [type |-> "response.created", response_id |-> "r2"],
      FunctionCall("question_asked", JsonText([index |-> 1])),
      FunctionCall("question_asked", JsonText([index |-> 2, is_primary |-> FALSE])),
      FunctionCall("question_asked", MalformedJson),
      FunctionCall("evaluate_answer", JsonText([score |-> 90, reasoning |-> "good"])),
      FunctionCall("end_interview",
                   JsonText([overall_score |-> 80, recommendation |-> "hire"])),
      FunctionCall("end_interview",
                   JsonText([overall_score |-> 60, recommendation |-> "maybe"])),
      FunctionCall("other_tool", JsonText(EmptyDict)),
      [type |-> "conversation.item.created", item |-> [id |-> "item"]],
      [type |-> "response.audio.delta", response_id |-> "r1"],
      [type |-> "response.audio.delta", response |-> [id |-> "r2"]],
      [type |-> "response.done"],
      [type |-> "conversation.item.input_audio_transcription.completed",
       transcript |-> Transcript(WordsPerMinute)],
      [type |-> "session.updated"] }

UpstreamFrames(n) == { Put(b, "event_id", n) : b \in UpstreamBodies }

---------------------------------------------------------------------------
\* proxy_openai_to_client

UpstreamLoop ==
    <<pc_client, c_data, c_sent, gated, client_open, openai_open, Handler>>

\* a or b of Python for ids: b when a is None.
Either(a, b) == IF a # Null THEN a ELSE b

\* The id read from the response object only.
ResponseIdOfObject(data) == Get(Get(data, "response", EmptyDict), "id", Null)

\* response_obj.get("id") or data.get("response_id")
ResponseId(data) ==
    Either(Get(Get(data, "response", EmptyDict), "id", Null),
           Get(data, "response_id", Null))

FunctionName(data) == Get(Get(data, "function", EmptyDict), "name", Null)

FunctionArguments(data) ==
    JsonLoads(Get(Get(data, "function", EmptyDict), "arguments", JsonText(EmptyDict)))

\* The guard that never holds: every question_asked counts.
DebouncedNever(s) == FALSE

\* The debounce guard of question_asked.
Debounced(s) == s.question_marked

\* The question is primary only when the call says so.
IsPrimaryOnRequest(s, args) == Get(args, "is_primary", FALSE)

\* Whether the question a question_asked call names is a primary one.
IsPrimary(s, args) ==
    LET question_idx == Get(args, "index", s.current_question + 1)
        is_primary == Get(args, "is_primary", TRUE)
        q_data == PyIndex(s.scenario, question_idx - 1)
    IN IF ~Get(args, "is_primary", FALSE) /\ Len(s.scenario) > 0
          /\ question_idx <= Len(s.scenario) /\ q_data.ok
       THEN q_data.value.competence \notin NonPrimary
       ELSE is_primary

\* The clamp without its upper end.
ClampQuestionNoMax(idx, total_questions) == Max(1, idx)

\* idx = max(1, min(idx, session.total_questions))
ClampQuestion(idx, total_questions) == Max(1, Min(idx, total_questions))

\* The tracking that advances by two questions.
MarkQuestionByTwo(s, args) ==
    LET marked == [s EXCEPT !.question_marked = TRUE]
        idx == ClampQuestion(s.current_question + 2, s.total_questions)
    IN IF ~IsPrimary(s, args)
       THEN [session |-> marked, advanced |-> FALSE]
       ELSE IF idx > s.current_question
       THEN [session |-> [marked EXCEPT !.answered_primary = @ + 1,
                                        !.current_question = idx],
             advanced |-> TRUE]
       ELSE [session |-> [marked EXCEPT !.answered_primary = @ + 1],
             advanced |-> FALSE]

\* The tracking that counts a primary question only when it advances.
MarkQuestionWhenAdvancing(s, args) ==
    LET marked == [s EXCEPT !.question_marked = TRUE]
        idx == ClampQuestion(s.current_question + 1, s.total_questions)
    IN IF ~IsPrimary(s, args)
       THEN [session |-> marked, advanced |-> FALSE]
       ELSE IF idx > s.current_question
       THEN [session |-> [marked EXCEPT !.current_question = idx],
             advanced |-> TRUE]
       ELSE [session |-> [marked EXCEPT !.answered_primary = @ + 1],
             advanced |-> FALSE]

\* The first question_asked of a response: the session afterwards and
\* whether a progress.update goes to the browser.
MarkQuestion(s, args) ==
    LET marked == [s EXCEPT !.question_marked = TRUE]
        idx == ClampQuestion(s.current_question + 1, s.total_questions)
    IN IF ~IsPrimary(s, args)
       THEN [session |-> marked, advanced |-> FALSE]
       ELSE IF idx > s.current_question
       THEN [session |-> [marked EXCEPT !.answered_primary = @ + 1,
                                        !.current_question = idx],
             advanced |-> TRUE]
       ELSE [session |-> [marked EXCEPT !.answered_primary = @ + 1],
             advanced |-> FALSE]

\* The trigger without its test of the speech counted so far.
AutoFinishDueNoSpeech(s) ==
    /\ s.current_question >= s.total_questions
    /\ ~InterviewCompleted(s)
    /\ s.answered_primary >= s.min_primary_required

\* The condition of the auto-finish trigger.
AutoFinishDue(s) ==
    /\ s.current_question >= s.total_questions
    /\ ~InterviewCompleted(s)
    /\ s.answered_primary >= s.min_primary_required
    /\ s.user_speaking_ms >= s.min_dialog_ms

AutoFinishFrame ==
    [type |-> "response.create", by |-> "auto_finish",
     response |-> [modalities |-> <<"audio", "text">>,
                   instructions |-> "call_end_interview_now"]]

\* The filter that lets every delta through.
StaleDeltaNever(data, s) == FALSE

\* Whether a response.audio.delta belongs to a response other than the
\* active one.
StaleDelta(data, s) ==
    /\ s.active_response_id # Null
    /\ ResponseId(data) # Null
    /\ ResponseId(data) # s.active_response_id

\* The rest of one function call's handling from the auto-finish check on:
\* the trigger's response.create goes upstream, or, when it is not due, the
\* frame in hand goes to the browser.
AutoFinishOrForward(s, data) ==
    IF AutoFinishDue(s)
    THEN /\ openai_sent' = Send(openai_sent, AutoFinishFrame, openai_open)
         /\ pc_upstream' = IF openai_open THEN "fc_tail" ELSE "failed"
         /\ UNCHANGED client_sent
    ELSE /\ client_sent' = Send(client_sent, data, client_open)
         /\ pc_upstream' = IF client_open THEN "recv" ELSE "failed"
         /\ UNCHANGED openai_sent

\* Only the end of the audio counts as the end of a response.
EndsResponseAudioOnly(type) == type = "response.audio.done"

\* The events at which the flags of the active response are cleared.
EndsResponse(type) == type \in {"response.audio.done", "response.done"}

\* One frame read and handled up to the first await that has code after it.
UpstreamRecv(data) ==
    LET ok == client_open IN
    /\ pc_upstream = "recv"
    /\ openai_open
    /\ n_events < MaxEvents
    /\ n_events' = n_events + 1
    /\ u_data' = data
    /\ UNCHANGED UpstreamLoop
    /\ LET type == Get(data, "type", Null) IN
       IF type = "response.created" THEN
            LET response_obj == Get(data, "response", EmptyDict) IN
            /\ session' = [session EXCEPT !.question_marked = FALSE,
                                          !.active_response_id = ResponseId(data),
                                          !.assistant_speaking = TRUE]
            /\ client_sent' = Send(client_sent,
                   [type |-> "response.created", response |-> response_obj], ok)
            /\ pc_upstream' = IF ok THEN "recv" ELSE "failed"
            /\ at_created' = Progress(session, client_sent)
            /\ UNCHANGED <<openai_sent, u_result>>
       ELSE IF type = "response.function_call" THEN
            LET arguments == FunctionArguments(data) IN
            IF ~arguments.ok
            THEN /\ pc_upstream' = "failed"
                 /\ UNCHANGED <<session, openai_sent, client_sent, u_result,
                                at_created>>
            ELSE LET call == handle_function_call(session, FunctionName(data),
                                                  arguments.value) IN
                 /\ session' = call.session
                 /\ u_result' = call.result
                 /\ openai_sent' = Send(openai_sent,
                        [type |-> "function_call_output",
                         call_id |-> Get(data, "call_id", Null),
                         output |-> call.result], openai_open)
                 /\ pc_upstream' = IF openai_open THEN "fc_output_sent" ELSE "failed"
                 /\ UNCHANGED <<client_sent, at_created>>
       ELSE IF type = "response.audio.delta" /\ StaleDelta(data, session) THEN
            /\ pc_upstream' = "recv"
            /\ UNCHANGED <<session, openai_sent, client_sent, u_result,
                           at_created>>
       ELSE
            /\ session' =
                 IF type = "conversation.item.created"
                 THEN [session EXCEPT !.conversation_items =
                           Append(@, Get(data, "item", EmptyDict))]
                 ELSE IF EndsResponse(type)
                 THEN [session EXCEPT !.assistant_speaking = FALSE,
                                      !.active_response_id = Null]
                 ELSE IF type = "conversation.item.input_audio_transcription.completed"
                 THEN [session EXCEPT !.user_speaking_ms =
                           @ + TranscriptMs(Get(data, "transcript", << >>))]
                 ELSE session
            /\ client_sent' = Send(client_sent,
                   IF type = "response.audio.delta"
                   THEN Put(data, "response_id",
                            Either(ResponseId(data), session.active_response_id))
                   ELSE data, ok)
            /\ pc_upstream' = IF ok THEN "recv" ELSE "failed"
            /\ UNCHANGED <<openai_sent, u_result, at_created>>

\* After the tool result went upstream: the completion event of an accepted
\* end_interview, or the progress tracking of question_asked, up to the next
\* await that has code after it.
UpstreamAfterOutput ==
    LET ok == client_open IN
    /\ pc_upstream = "fc_output_sent"
    /\ UNCHANGED <<u_data, u_result, n_events>>
    /\ UNCHANGED UpstreamLoop
    /\ LET fn == FunctionName(u_data)
           args == FunctionArguments(u_data).value
       IN
       IF fn = "end_interview" /\ Get(u_result, "status", Null) = "success" THEN
            LET final_results == score_and_finalize(session) IN
            /\ client_sent' = Send(client_sent,
                   [type |-> "interview.completed",
                    decision |-> final_results.decision,
                    redirect_url |-> final_results.redirect_url], ok)
            /\ pc_upstream' = IF ok THEN "fc_tail" ELSE "failed"
            /\ UNCHANGED <<session, openai_sent, at_created>>
       ELSE IF fn = "question_asked" /\ ~Debounced(session) THEN
            LET mark == MarkQuestion(session, args) IN
            /\ session' = mark.session
            /\ UNCHANGED at_created
            /\ IF mark.advanced
               THEN /\ client_sent' = Send(client_sent,
                           [type |-> "progress.update",
                            current |-> mark.session.current_question,
                            total |-> mark.session.total_questions], ok)
                    /\ pc_upstream' = IF ok THEN "qa_progress_sent" ELSE "failed"
                    /\ UNCHANGED openai_sent
               ELSE AutoFinishOrForward(mark.session, u_data)
       ELSE
            /\ client_sent' = Send(client_sent, u_data, ok)
            /\ pc_upstream' = IF ok THEN "recv" ELSE "failed"
            /\ UNCHANGED <<session, openai_sent, at_created>>

\* After the progress.update went to the browser: the auto-finish check.
UpstreamAfterProgress ==
    /\ pc_upstream = "qa_progress_sent"
    /\ AutoFinishOrForward(session, u_data)
    /\ UNCHANGED <<session, u_data, u_result, n_events, at_created>>
    /\ UNCHANGED UpstreamLoop

\* The end of one function call's handling: the frame goes to the browser.
UpstreamTail ==
    LET ok == client_open IN
    /\ pc_upstream = "fc_tail"
    /\ client_sent' = Send(client_sent, u_data, ok)
    /\ pc_upstream' = IF ok THEN "recv" ELSE "failed"
    /\ UNCHANGED <<session, u_data, u_result, openai_sent, n_events, at_created>>
    /\ UNCHANGED UpstreamLoop

\* The upstream connection closed: the iteration over openai_ws ends.
UpstreamClosed ==
    /\ pc_upstream = "recv"
    /\ ~openai_open
    /\ pc_upstream' = "closed"
    /\ UNCHANGED <<session, u_data, u_result, openai_sent, client_sent, n_events,
                   at_created>>
    /\ UNCHANGED UpstreamLoop

\* json.loads(message) raises on a frame that is no JSON: the except clause
\* ends the loop.
UpstreamMalformed ==
    /\ pc_upstream = "recv"
    /\ openai_open
    /\ n_events < MaxEvents
    /\ n_events' = n_events + 1
    /\ pc_upstream' = "failed"
    /\ UNCHANGED <<session, u_data, u_result, openai_sent, client_sent, at_created>>
    /\ UNCHANGED UpstreamLoop

---------------------------------------------------------------------------
\* the sockets

\* The browser goes away: its socket is closed from now on.
BrowserCloses ==
    /\ client_open
    /\ n_events < MaxEvents
    /\ n_events' = n_events + 1
    /\ client_open' = FALSE
    /\ UNCHANGED <<session, pc_client, pc_upstream, c_data, c_sent, u_data, u_result,
                   openai_sent, client_sent, openai_open, gated, at_created,
                   Handler>>

\* The upstream endpoint closes the connection.
OpenaiCloses ==
    /\ openai_open
    /\ n_events < MaxEvents
    /\ n_events' = n_events + 1
    /\ openai_open' = FALSE
    /\ UNCHANGED <<session, pc_client, pc_upstream, c_data, c_sent, u_data, u_result,
                   openai_sent, client_sent, client_open, gated, at_created,
                   Handler>>

---------------------------------------------------------------------------
\* the two coroutines under asyncio.gather

Next ==
    \/ \E data \in ClientFrames(n_events + 1) : ClientRecv(data)
    \/ ClientLangAck
    \/ ClientCancelFinally
    \/ ClientForward
    \/ ClientDisconnect
    \/ ClientMalformed
    \/ \E data \in UpstreamFrames(n_events + 1) : UpstreamRecv(data)
    \/ UpstreamAfterOutput
    \/ UpstreamAfterProgress
    \/ UpstreamTail
    \/ UpstreamClosed
    \/ UpstreamMalformed
    \/ BrowserCloses
    \/ OpenaiCloses

Spec == Init /\ [][Next]_vars

---------------------------------------------------------------------------
\* realtime_websocket: one connection from accept to the end of finally

\* The state after websocket.accept(), with the handler at the given place:
\* no session yet, no upstream connection, neither coroutine started.
Handling(at) ==
    /\ session = EmptyDict
    /\ pc_client = "idle"
    /\ pc_upstream = "idle"
    /\ c_data = EmptyDict
    /\ c_sent = TRUE
    /\ u_data = EmptyDict
    /\ u_result = EmptyDict
    /\ openai_sent = << >>
    /\ client_sent = << >>
    /\ client_open = TRUE
    /\ openai_open = FALSE
    /\ n_events = 0
    /\ gated = {}
    /\ at_created = [answered_primary |-> 0, current_question |-> 0,
                     progress_updates |-> 0]
    /\ h_pc = at
    /\ realtime_sessions = {}
    /\ db = [session |-> IF at = "accepted" THEN "none" ELSE "open",
             tags |-> EmptyDict]
    /\ openai_ws = Null
    /\ log = {}
    /\ saved = << >>
    /\ conns = NoConnections
    /\ found = NotAsked

HandlerLoop ==
    <<pc_client, pc_upstream, c_data, c_sent, u_data, u_result, n_events, gated,
      at_created, saved, conns, found>>

\* The except clause that logs and tells the browser nothing.
FailedSilently(message) ==
    /\ client_sent' = client_sent
    /\ log' = log \cup {"Error in realtime websocket"}
    /\ h_pc' = "finally"

\* An exception in the try block: the except clause logs it and tries to
\* tell the browser, then finally runs.  (For WebSocketDisconnect nothing is
\* sent; the browser is gone then, and nothing would arrive.)
Failed(message) ==
    /\ client_sent' = Send(client_sent,
           [type |-> "error", error |-> [message |-> message]], client_open)
    /\ log' = log \cup {"Error in realtime websocket"}
    /\ h_pc' = "finally"

\* db = SessionLocal() and db.get(Candidate, cand_id): the candidate is
\* found, or is not (one error event, websocket.close(), return), or the
\* lookup raises, or SessionLocal() itself raises and db stays None.
LookupCandidate ==
    /\ h_pc = "accepted"
    /\ \E outcome \in {"found", "missing", "error", "no_db"} :
          /\ db' = [db EXCEPT !.session = IF outcome = "no_db" THEN "none" ELSE "open"]
          /\ IF outcome = "found"
             THEN /\ h_pc' = "candidate"
                  /\ UNCHANGED <<client_sent, client_open, log>>
             ELSE IF outcome = "missing" /\ client_open
             THEN /\ client_sent' = Append(client_sent,
                         [type |-> "error", error |-> [message |-> "candidate_not_found"]])
                  /\ client_open' = FALSE
                  /\ h_pc' = "finally"
                  /\ UNCHANGED log
             ELSE /\ Failed(outcome)
                  /\ UNCHANGED client_open
    /\ UNCHANGED <<session, openai_sent, openai_open, realtime_sessions, openai_ws>>
    /\ UNCHANGED HandlerLoop

\* The vacancy's scenario is read, the session is built and registered, and
\* total_questions is set from the scenario.
CreateSession(scenario, thresholds) ==
    /\ h_pc = "candidate"
    /\ session' = NewSession(scenario, thresholds)
    /\ realtime_sessions' = realtime_sessions \cup {SessionId}
    /\ h_pc' = "connect"
    /\ UNCHANGED <<openai_sent, client_sent, client_open, openai_open, db,
                   openai_ws, log>>
    /\ UNCHANGED HandlerLoop

\* websockets.connect(..., open_timeout=30): connected, or it raised.
ConnectOpenai ==
    /\ h_pc = "connect"
    /\ \E connected \in BOOLEAN :
          IF connected
          THEN /\ openai_ws' = "ws"
               /\ openai_open' = TRUE
               /\ h_pc' = "connected"
               /\ UNCHANGED <<client_sent, log>>
          ELSE /\ Failed("connect")
               /\ UNCHANGED <<openai_ws, openai_open>>
    /\ UNCHANGED <<session, openai_sent, client_open, realtime_sessions, db>>
    /\ UNCHANGED HandlerLoop

\* The announcement sent a second time.
AnnounceSessionTwice ==
    /\ h_pc = "connected"
    /\ IF client_open
       THEN /\ client_sent' = client_sent \o SetupClient(session) \o SetupClient(session)
            /\ h_pc' = "configure"
            /\ UNCHANGED log
       ELSE Failed("send")
    /\ UNCHANGED <<session, openai_sent, client_open, openai_open,
                   realtime_sessions, db, openai_ws>>
    /\ UNCHANGED HandlerLoop

\* session.created goes to the browser once the upstream connection stands.
AnnounceSession ==
    /\ h_pc = "connected"
    /\ IF client_open
       THEN /\ client_sent' = client_sent \o SetupClient(session)
            /\ h_pc' = "configure"
            /\ UNCHANGED log
       ELSE Failed("send")
    /\ UNCHANGED <<session, openai_sent, client_open, openai_open,
                   realtime_sessions, db, openai_ws>>
    /\ UNCHANGED HandlerLoop

\* The three frames that configure the upstream session, one send each; after
\* the last, asyncio.gather starts the two coroutines.
ConfigureOpenai ==
    LET k == Len(openai_sent) + 1 IN
    /\ h_pc = "configure"
    /\ IF openai_open
       THEN /\ openai_sent' = Append(openai_sent, SetupOpenai[k])
            /\ h_pc' = IF k = Len(SetupOpenai) THEN "gather" ELSE "configure"
            /\ pc_client' = IF k = Len(SetupOpenai) THEN "recv" ELSE pc_client
            /\ pc_upstream' = IF k = Len(SetupOpenai) THEN "recv" ELSE pc_upstream
            /\ at_created' = Progress(session, client_sent)
            /\ UNCHANGED <<client_sent, log>>
       ELSE /\ Failed("send")
            /\ UNCHANGED <<openai_sent, pc_client, pc_upstream, at_created>>
    /\ UNCHANGED <<session, c_data, c_sent, u_data, u_result, client_open,
                   openai_open, n_events, gated, realtime_sessions, db,
                   openai_ws, saved, conns, found>>

\* asyncio.gather(..., return_exceptions=True) returns when both coroutines
\* have returned.
GatherReturns ==
    /\ h_pc = "gather"
    /\ pc_client \in {"closed", "failed"}
    /\ pc_upstream \in {"closed", "failed"}
    /\ h_pc' = "finally"
    /\ UNCHANGED <<session, openai_sent, client_sent, client_open, openai_open,
                   realtime_sessions, db, openai_ws, log>>
    /\ UNCHANGED HandlerLoop

\* What save_interview_results writes into candidate.tags (the date and the
\* duration, which are clock readings, left out).
InterviewTags(s) ==
    [interview_completed |-> TRUE,
     interview_score |-> Get(s.context, "overall_score", 0),
     interview_passed |-> Get(s.context, "passed", FALSE),
     interview_recommendation |-> Get(s.context, "recommendation", "maybe"),
     interview_summary |->
         [scores |-> s.scores,
          strengths |-> Get(s.context, "strengths", << >>),
          weaknesses |-> Get(s.context, "weaknesses", << >>),
          conversation_items |-> Len(s.conversation_items)]]

\* The save that is never called.
FinalizerNever(s) == FALSE

\* The condition under which finally calls save_interview_results.
FinalizerDue(s) ==
    /\ s # EmptyDict
    /\ InterviewCompleted(s)
    /\ db.session # "none"

\* save_interview_results without its except clause: a write that raises
\* leaves the handler through finally, whose other steps are not run.
FinallySaveUncaught ==
    /\ h_pc = "finally"
    /\ IF FinalizerDue(session)
       THEN \E written \in BOOLEAN :
               /\ saved' = Append(saved, IF written THEN "saved" ELSE "error")
               /\ db' = IF written THEN [db EXCEPT !.tags = InterviewTags(session)]
                        ELSE db
               /\ log' = log
               /\ h_pc' = IF written THEN "finally_db" ELSE "done"
       ELSE /\ h_pc' = "finally_db"
            /\ UNCHANGED <<saved, db, log>>
    /\ UNCHANGED <<session, pc_client, pc_upstream, c_data, c_sent, u_data,
                   u_result, openai_sent, client_sent, client_open, openai_open,
                   n_events, gated, at_created, realtime_sessions, openai_ws,
                   conns, found>>

\* finally, first step: save_interview_results when the interview was
\* completed.  Its write (db.get, the tags, db.commit) succeeds, or raises
\* inside it and is logged there.
FinallySave ==
    /\ h_pc = "finally"
    /\ IF FinalizerDue(session)
       THEN \E written \in BOOLEAN :
               /\ saved' = Append(saved, IF written THEN "saved" ELSE "error")
               /\ db' = IF written THEN [db EXCEPT !.tags = InterviewTags(session)]
                        ELSE db
               /\ log' = IF written THEN log
                         ELSE log \cup {"Error saving interview results"}
               /\ h_pc' = "finally_db"
       ELSE /\ h_pc' = "finally_db"
            /\ UNCHANGED <<saved, db, log>>
    /\ UNCHANGED <<session, pc_client, pc_upstream, c_data, c_sent, u_data,
                   u_result, openai_sent, client_sent, client_open, openai_open,
                   n_events, gated, at_created, realtime_sessions, openai_ws,
                   conns, found>>

\* finally, second step: db.close().
FinallyDbClose ==
    /\ h_pc = "finally_db"
    /\ h_pc' = "finally_pop"
    /\ db' = IF db.session = "none" THEN db ELSE [db EXCEPT !.session = "closed"]
    /\ UNCHANGED <<session, openai_sent, client_sent, client_open, openai_open,
                   realtime_sessions, openai_ws, log>>
    /\ UNCHANGED HandlerLoop

\* finally, third step: the session leaves the registry and the upstream
\* socket, if there is one, is closed.
FinallyDeregister ==
    /\ h_pc = "finally_pop"
    /\ h_pc' = "finally_close"
    /\ realtime_sessions' = IF session # EmptyDict
                            THEN realtime_sessions \ {SessionId}
                            ELSE realtime_sessions
    /\ openai_open' = IF openai_ws # Null THEN FALSE ELSE openai_open
    /\ UNCHANGED <<session, openai_sent, client_sent, client_open, db,
                   openai_ws, log>>
    /\ UNCHANGED HandlerLoop

\* finally, last step: websocket.close(), whatever it raises swallowed.
FinallyCloseClient ==
    /\ h_pc = "finally_close"
    /\ h_pc' = "done"
    /\ client_open' = FALSE
    /\ UNCHANGED <<session, openai_sent, client_sent, openai_open,
                   realtime_sessions, db, openai_ws, log>>
    /\ UNCHANGED HandlerLoop

\* The sessions a connection builds: the constructor's thresholds with or
\* without a scenario, and the lower ones of Sessions.
ConnSessions ==
    Sessions \cup { [scenario |-> OnePrimary,
                     min_primary_required |-> DefaultMinPrimaryRequired,
                     min_dialog_ms |-> DefaultMinDialogMs] }

InitConn == Handling("accepted")

NextConn ==
    \/ LookupCandidate
    \/ \E cfg \in ConnSessions : CreateSession(cfg.scenario, cfg)
    \/ ConnectOpenai
    \/ AnnounceSession
    \/ ConfigureOpenai
    \/ Next
    \/ GatherReturns
    \/ FinallySave
    \/ FinallyDbClose
    \/ FinallyDeregister
    \/ FinallyCloseClient

SpecConn == InitConn /\ [][NextConn]_vars

---------------------------------------------------------------------------
\* vocabulary of the properties

Last(seq) == seq[Len(seq)]

FrameType(frame) == Get(frame, "type", Null)

Positions(sent, type) == {i \in DOMAIN sent : FrameType(sent[i]) = type}

\* This step is proxy_client_to_openai reading a frame of the given type.
ClientReads(type) ==
    pc_client = "recv" /\ c_data' # c_data /\ FrameType(c_data') = type

\* This step is proxy_openai_to_client reading a frame of the given type.
UpstreamReads(type) ==
    pc_upstream = "recv" /\ u_data' # u_data /\ FrameType(u_data') = type

\* This step puts exactly this frame, and nothing else, on a socket.
Sends(sent_before, sent_after, frame) == sent_after = Append(sent_before, frame)

\* This step is proxy_openai_to_client reading a call of the named tool whose
\* arguments parse.
UpstreamCalls(name) ==
    /\ UpstreamReads("response.function_call")
    /\ FunctionName(u_data') = name
    /\ FunctionArguments(u_data').ok

BelowThresholds(s) ==
    \/ s.answered_primary < s.min_primary_required
    \/ s.user_speaking_ms < s.min_dialog_ms

ResultKeys ==
    {"interview_completed", "overall_score", "strengths", "weaknesses",
     "recommendation", "passed"}

\* The result context: what end_interview wrote.
ResultContext(s) ==
    [k \in ResultKeys \cap DOMAIN s.context |-> s.context[k]]

AutoFinishSent == {i \in DOMAIN openai_sent : openai_sent[i] = AutoFinishFrame}

---------------------------------------------------------------------------
\* C1: active_response_id is never overwritten: whenever the response.created
\* handling assigns a non-null id (here: one that differs from the id held),
\* active_response_id was null just before.
C1_NeverOverwritten ==
    [][ ( /\ UpstreamReads("response.created")
          /\ ResponseId(u_data') # Null
          /\ ResponseId(u_data') # session.active_response_id )
            => session.active_response_id = Null ]_vars

\* C2: every response.create sent upstream while active_response_id is
\* non-null, forwarded from the browser or made by the auto-finish trigger,
\* directly follows a response.cancel sent upstream.
C2_CancelDirectlyBeforeCreate ==
    [][ ( /\ Len(openai_sent') = Len(openai_sent) + 1
          /\ FrameType(Last(openai_sent')) = "response.create"
          /\ session.active_response_id # Null )
            => FrameType(Last(openai_sent)) = "response.cancel" ]_vars

\* C3: a response.create read while active_response_id is set sends one
\* response.cancel upstream and then, in the next step of the coroutine, the
\* create itself, once; read while active_response_id is null it goes
\* upstream at once with no cancel; and when the cancel's send raises, the
\* coroutine still goes on to the send of the create.
C3_CancelThenCreate ==
    [][ /\ ( ClientReads("response.create") /\ session.active_response_id # Null )
            => /\ pc_client' = "forward"
               /\ openai_open => Sends(openai_sent, openai_sent',
                                       [type |-> "response.cancel"])
               /\ ~openai_open => openai_sent' = openai_sent
        /\ ( pc_client = "forward" /\ pc_client' # "forward" )
            => /\ FrameType(c_data) = "response.create"
               /\ openai_open => /\ Sends(openai_sent, openai_sent', c_data)
                                 /\ pc_client' = "recv"
               /\ Cardinality({i \in DOMAIN openai_sent' :
                                   openai_sent'[i] = c_data}) <= 1
        /\ ( ClientReads("response.create") /\ session.active_response_id = Null
             /\ openai_open )
            => /\ Sends(openai_sent, openai_sent', c_data')
               /\ pc_client' = "recv"
      ]_vars

\* C3 witness: a create was read with a response active, the cancel went
\* upstream and the create after it.
C3_Witness ==
    /\ pc_client = "recv"
    /\ FrameType(c_data) = "response.create"
    /\ \E i, j \in DOMAIN openai_sent :
          /\ i < j
          /\ openai_sent[i] = [type |-> "response.cancel"]
          /\ openai_sent[j] = c_data

\* C4: an input_audio_buffer.append read while assistant_speaking is true is
\* dropped: it is not sent upstream in that step or in any later one and the
\* coroutine is back at its read; every other frame read in that state is
\* handled (it, or the frame its branch sends, goes upstream, or the session
\* changes); an append read while assistant_speaking is false goes upstream.
C4_HalfDuplexGate ==
    /\ [](\A i \in DOMAIN openai_sent :
              Get(openai_sent[i], "event_id", 0) \notin gated)
    /\ [][ /\ ( ClientReads("input_audio_buffer.append")
                /\ session.assistant_speaking )
               => /\ openai_sent' = openai_sent
                  /\ session' = session
                  /\ pc_client' = "recv"
                  /\ c_data'.event_id \in gated'
           /\ ( ClientReads("input_audio_buffer.append")
                /\ ~session.assistant_speaking /\ openai_open )
               => /\ Sends(openai_sent, openai_sent', c_data')
                  /\ gated' = gated
           /\ ( pc_client = "recv" /\ c_data' # c_data
                /\ FrameType(c_data') # "input_audio_buffer.append"
                /\ session.assistant_speaking /\ openai_open )
               => /\ gated' = gated
                  /\ \/ Len(openai_sent') = Len(openai_sent) + 1
                     \/ session' # session
         ]_vars

\* C4 witness: an append was dropped while the assistant spoke and a later
\* frame of the browser went upstream.
C4_Witness ==
    /\ gated # {}
    /\ \E i \in DOMAIN openai_sent : \E e \in gated :
           Get(openai_sent[i], "event_id", 0) > e

\* C5: 0 <= current_question <= total_questions in every state,
\* total_questions is at least 1 and fixed, and no step lowers
\* current_question.
C5_QuestionRange ==
    /\ [](/\ 0 <= session.current_question
          /\ session.current_question <= session.total_questions
          /\ session.total_questions >= 1)
    /\ [][ /\ session'.current_question >= session.current_question
           /\ session'.total_questions = session.total_questions ]_vars

\* C5 witness: a primary question was counted when current_question already
\* stood at total_questions.
C5_Witness ==
    /\ session.current_question = session.total_questions
    /\ session.answered_primary > session.total_questions

\* C6: between two response.created events, all question_asked calls together
\* raise answered_primary at most once, current_question at most once and
\* send at most one progress.update; only the response.created handling
\* resets question_marked, and it does so for every response.
C6_Debounce ==
    /\ [](LET now == Progress(session, client_sent) IN
          /\ now.answered_primary <= at_created.answered_primary + 1
          /\ now.current_question <= at_created.current_question + 1
          /\ now.progress_updates <= at_created.progress_updates + 1)
    /\ [][ /\ (session.question_marked /\ ~session'.question_marked)
               => UpstreamReads("response.created")
           /\ UpstreamReads("response.created") => ~session'.question_marked
         ]_vars

QuestionAskedForwarded ==
    {i \in DOMAIN client_sent :
        /\ FrameType(client_sent[i]) = "response.function_call"
        /\ FunctionName(client_sent[i]) = "question_asked"}

\* C6 witness: two question_asked calls were handled within one response, and
\* the first of them was counted.
C6_Witness ==
    /\ pc_upstream = "recv"
    /\ session.answered_primary = at_created.answered_primary + 1
    /\ \E i, j \in QuestionAskedForwarded :
          /\ i < j
          /\ \A k \in i..j : FrameType(client_sent[k]) # "response.created"

\* C7: an end_interview call made while answered_primary is below
\* min_primary_required or user_speaking_ms is below min_dialog_ms gets a
\* tool result of status "ignored", changes no session field in any step of
\* its handling, and sends the browser no interview.completed.
C7_ThresholdGate ==
    [][ /\ ( UpstreamCalls("end_interview") /\ BelowThresholds(session) )
            => /\ u_result'.status = "ignored"
               /\ session' = session
               /\ client_sent' = client_sent
               /\ openai_open =>
                     /\ Len(openai_sent') = Len(openai_sent) + 1
                     /\ Last(openai_sent').output.status = "ignored"
        /\ ( /\ pc_upstream \in {"fc_output_sent", "fc_tail"}
             /\ pc_upstream' # pc_upstream
             /\ FunctionName(u_data) = "end_interview"
             /\ u_result.status = "ignored" )
            => /\ session' = session
               /\ Positions(client_sent', "interview.completed")
                    = Positions(client_sent, "interview.completed")
      ]_vars

\* C7 witness: an end_interview call was refused for lack of dialog, and its
\* handling is over.
C7_Witness ==
    /\ pc_upstream = "recv"
    /\ FunctionName(u_data) = "end_interview"
    /\ u_result.status = "ignored"
    /\ u_result.message = "not_enough_dialog"
    /\ ~InterviewCompleted(session)
    /\ Positions(client_sent, "interview.completed") = {}

\* C8: once interview_completed is true, no step changes the result context
\* (interview_completed, overall_score, strengths, weaknesses,
\* recommendation, passed), whatever tool call arrives.
C8_CompletedIsFinal ==
    [][ InterviewCompleted(session)
            => ResultContext(session') = ResultContext(session) ]_vars

\* C9: at most one interview.completed is sent to the browser in a session.
C9_OneCompletionEvent ==
    Cardinality(Positions(client_sent, "interview.completed")) <= 1

\* C10: the auto-finish trigger's response.create is sent upstream at most
\* once in a session.
C10_AutoFinishOnce ==
    Cardinality(AutoFinishSent) <= 1

---------------------------------------------------------------------------
\* one interview from the first response to the verdict

\* Scenarios whose first question is a primary one: none (question_asked is
\* then primary unless it says otherwise), and one that opens with "stack".
E2EScenarios == { << >>, << Question("stack"), Question("final") >> }

\* What the upstream endpoint sends, in this order.
E2ETrace ==
    << [type |-> "response.created", response |-> [id |-> "r1"]],
       FunctionCall("question_asked", JsonText([index |-> 1])),
       FunctionCall("end_interview",
                    JsonText([overall_score |-> 80, recommendation |-> "hire"])) >>

\* How far proxy_openai_to_client has read into the trace, by the frame it
\* holds.
E2ERead ==
    IF u_data = EmptyDict THEN 0
    ELSE IF FrameType(u_data) = "response.created" THEN 1
    ELSE IF FunctionName(u_data) = "question_asked" THEN 2
    ELSE 3

InitE2E ==
    \E scenario \in E2EScenarios :
        Relaying(NewSession(scenario, [min_primary_required |-> 1,
                                       min_dialog_ms |-> 0]))

\* Both sockets stay open; the browser sends what it likes in between.
NextE2E ==
    \/ \E data \in ClientFrames(n_events + 1) : ClientRecv(data)
    \/ ClientLangAck
    \/ ClientCancelFinally
    \/ ClientForward
    \/ /\ E2ERead < Len(E2ETrace)
       /\ UpstreamRecv(Put(E2ETrace[E2ERead + 1], "event_id", n_events + 1))
    \/ UpstreamAfterOutput
    \/ UpstreamAfterProgress
    \/ UpstreamTail

SpecE2E == InitE2E /\ [][NextE2E]_vars

ToolResults(status) ==
    {i \in DOMAIN openai_sent :
        /\ FrameType(openai_sent[i]) = "function_call_output"
        /\ openai_sent[i].output.status = status}

E2EDone == E2ERead = Len(E2ETrace) /\ pc_upstream = "recv"

\* C11: with min_primary_required=1 and min_dialog_ms=0, once the upstream
\* trace response.created, question_asked{index:1} for a primary question,
\* end_interview{overall_score:80, recommendation:hire} is handled,
\* interview_completed is true, one tool result of status "success" went
\* upstream, and the browser got one interview.completed, of decision "hired".
C11_EndToEnd ==
    E2EDone =>
        /\ InterviewCompleted(session)
        /\ Cardinality(ToolResults("success")) = 1
        /\ \A i \in ToolResults("success") : openai_sent[i].output.overall_score = 80
        /\ Cardinality(Positions(client_sent, "interview.completed")) = 1
        /\ \A i \in Positions(client_sent, "interview.completed") :
              /\ client_sent[i].decision = "hired"
              /\ client_sent[i].redirect_url.decision = "hired"

\* C11 witness: the trace is handled and the verdict reached the browser.
C11_Witness ==
    /\ E2EDone
    /\ session.answered_primary = 1
    /\ Positions(client_sent, "interview.completed") # {}

---------------------------------------------------------------------------
\* the verdict of one end_interview call, for every recommendation and score

\* The highest overall_score a call carries.
MaxScore == 100

Recommendations == {"hire", "maybe", "reject"}

VerdictFrames(n) ==
    { Put(FunctionCall("end_interview",
                       JsonText([overall_score |-> score,
                                 recommendation |-> recommendation])),
          "event_id", n) :
        score \in 0..MaxScore, recommendation \in Recommendations }

\* A session that has met its thresholds: min_primary_required primary
\* questions counted, one to a response, and min_dialog_ms of speech.
Qualified(s) ==
    [s EXCEPT !.answered_primary = s.min_primary_required,
              !.current_question = Min(s.min_primary_required, s.total_questions),
              !.question_marked = TRUE,
              !.user_speaking_ms = s.min_dialog_ms]

\* The session of the constructor's thresholds, late in its interview.
InitVerdict ==
    Relaying(Qualified(NewSession(<< >>,
        [min_primary_required |-> DefaultMinPrimaryRequired,
         min_dialog_ms |-> DefaultMinDialogMs])))

\* proxy_openai_to_client handles one end_interview call.
NextVerdict ==
    \/ /\ n_events = 0
       /\ \E data \in VerdictFrames(1) : UpstreamRecv(data)
    \/ UpstreamAfterOutput
    \/ UpstreamTail

SpecVerdict == InitVerdict /\ [][NextVerdict]_vars

\* The decision the specification prescribes for a recommendation and score.
PrescribedDecision(recommendation, score) ==
    IF recommendation = "hire" THEN "hired"
    ELSE IF recommendation = "maybe" /\ score >= 70 THEN "maybe"
    ELSE "rejected"

\* C12: for an accepted end_interview call with recommendation in {hire,
\* maybe, reject} and overall_score in 0..100, passed (in the result context
\* and in the tool result) is true exactly when the recommendation is hire or
\* maybe; the interview.completed event carries the decision hired for hire,
\* maybe for maybe with a score of 70 or more, rejected otherwise; and its
\* redirect target carries that decision and the score.
C12_Verdict ==
    FunctionName(u_data) = "end_interview" =>
        LET args == FunctionArguments(u_data).value
            recommendation == args.recommendation
            score == args.overall_score
            events == Positions(client_sent, "interview.completed")
        IN /\ u_result.status = "success"
           /\ u_result.passed = (recommendation \in {"hire", "maybe"})
           /\ session.context.passed = (recommendation \in {"hire", "maybe"})
           /\ \A i \in events :
                 /\ client_sent[i].decision = PrescribedDecision(recommendation, score)
                 /\ client_sent[i].redirect_url.decision = client_sent[i].decision
                 /\ client_sent[i].redirect_url.score = score
           /\ pc_upstream \in {"fc_tail", "recv"} => Cardinality(events) = 1

\* C12 witness: a call recommending "maybe" with a score below 70 was
\* accepted, and the browser got its completion event.
C12_Witness ==
    /\ pc_upstream = "recv"
    /\ FunctionName(u_data) = "end_interview"
    /\ FunctionArguments(u_data).value.recommendation = "maybe"
    /\ FunctionArguments(u_data).value.overall_score = 69
    /\ session.context.passed
    /\ \E i \in Positions(client_sent, "interview.completed") :
          client_sent[i].decision = "rejected"

---------------------------------------------------------------------------
\* total_questions for every scenario list

\* The longest scenario list.
MaxScenario == 4

\* The competences of a scenario's entries; "" is an entry without one.
Competences == {"intro", "stack", "cases", "final", ""}

ScenarioLists ==
    UNION { [1..n -> {Question(c) : c \in Competences}] : n \in 1..MaxScenario }

InitScenario == Handling("candidate")

\* realtime_websocket builds the session of one vacancy.
NextScenario ==
    \E scenario \in ScenarioLists :
        CreateSession(scenario, [min_primary_required |-> DefaultMinPrimaryRequired,
                                 min_dialog_ms |-> DefaultMinDialogMs])

SpecScenario == InitScenario /\ [][NextScenario]_vars

\* The number of entries whose competence is neither intro nor final.
NeitherIntroNorFinal(scenario) ==
    Cardinality({i \in DOMAIN scenario :
                    scenario[i].competence \notin {"intro", "final"}})

\* C13: for every non-empty scenario list (every entry naming a competence),
\* total_questions is the number of entries whose competence is neither
\* intro nor final, and 1 when there is no such entry.
C13_TotalQuestions ==
    ( /\ session # EmptyDict
      /\ \A i \in DOMAIN session.scenario : session.scenario[i].competence # "" )
        => session.total_questions
             = Max(1, NeitherIntroNorFinal(session.scenario))

---------------------------------------------------------------------------
\* C14: a response.audio.delta read while active_response_id is non-null and
\* carrying another id is not sent to the browser, in that step or later (the
\* coroutine is back at its read, the frame in hand is never sent from
\* there); one carrying the id active_response_id holds is sent to the
\* browser in that step, tagged with that id.
C14_StaleDeltaFilter ==
    [][ /\ ( /\ UpstreamReads("response.audio.delta")
             /\ session.active_response_id # Null
             /\ ResponseId(u_data') # Null
             /\ ResponseId(u_data') # session.active_response_id )
            => /\ client_sent' = client_sent
               /\ pc_upstream' = "recv"
        /\ ( pc_upstream = "recv" /\ u_data' = u_data )
            => Positions(client_sent', "response.audio.delta")
                 = Positions(client_sent, "response.audio.delta")
        /\ ( /\ UpstreamReads("response.audio.delta")
             /\ session.active_response_id # Null
             /\ ResponseId(u_data') = session.active_response_id
             /\ client_open )
            => Sends(client_sent, client_sent',
                     Put(u_data', "response_id", session.active_response_id))
      ]_vars

\* C14 witness: a delta of the active response reached the browser, and the
\* delta read after it, of another response, did not.
C14_Witness ==
    /\ pc_upstream = "recv"
    /\ FrameType(u_data) = "response.audio.delta"
    /\ session.active_response_id # Null
    /\ ResponseId(u_data) # session.active_response_id
    /\ Positions(client_sent, "response.audio.delta") # {}
    /\ \A i \in Positions(client_sent, "response.audio.delta") :
          /\ client_sent[i].event_id < u_data.event_id
          /\ client_sent[i].response_id = session.active_response_id

---------------------------------------------------------------------------
\* C15: a response.cancel read from the browser puts one bare response.cancel
\* on the upstream socket (none when the socket is closed and the send
\* raises) and the message itself is never forwarded; the step that ends its
\* handling, which waits for nothing from upstream, leaves assistant_speaking
\* false and active_response_id null, also when the send raised.
C15_Cancel ==
    /\ [](\A i \in Positions(openai_sent, "response.cancel") :
              openai_sent[i] = [type |-> "response.cancel"])
    /\ [](pc_client = "cancel_finally" => ENABLED ClientCancelFinally)
    /\ [][ /\ ClientReads("response.cancel")
               => /\ pc_client' = "cancel_finally"
                  /\ session' = session
                  /\ openai_open => Sends(openai_sent, openai_sent',
                                          [type |-> "response.cancel"])
                  /\ ~openai_open => openai_sent' = openai_sent
           /\ ( pc_client = "cancel_finally" /\ pc_client' # pc_client )
               => /\ ~session'.assistant_speaking
                  /\ session'.active_response_id = Null
                  /\ openai_sent' = openai_sent
                  /\ pc_client' = IF c_sent THEN "recv" ELSE "failed"
         ]_vars

\* C15 witness: a response was started, the browser's cancel was read and
\* handled, and one cancel is on the upstream socket.
C15_Witness ==
    /\ pc_client = "recv"
    /\ FrameType(c_data) = "response.cancel"
    /\ Positions(client_sent, "response.created") # {}
    /\ ~session.assistant_speaking
    /\ session.active_response_id = Null
    /\ Cardinality(Positions(openai_sent, "response.cancel")) = 1

---------------------------------------------------------------------------
\* the browser's control messages, for every value they carry

\* The durations stt.user_final reports.
SpeechDurations == {-1, 0, 1, DefaultMinDialogMs}

\* The values session.update_lang carries.
LangValues ==
    { <<"r", "u">>, <<"R", "U">>, <<"r", "u", "-", "R", "U">>, <<"e", "n">>,
      <<"E", "N">>, <<"d", "e">>, <<"r">>, << >> }

ControlBodies ==
    { [type |-> "stt.user_final", ms |-> ms] : ms \in SpeechDurations }
      \cup { [type |-> "stt.user_final"], [type |-> "session.update_lang"] }
      \cup { [type |-> "session.update_lang", lang |-> v] : v \in LangValues }

ControlFrames(n) == { Put(b, "event_id", n) : b \in ControlBodies }

\* What the upstream endpoint sends meanwhile.
ControlUpstreamBodies ==
    { [type |-> "response.created", response |-> [id |-> "r1"]],
      [type |-> "response.done"],
      [type |-> "conversation.item.input_audio_transcription.completed",
       transcript |-> Transcript(WordsPerMinute)] }

ControlUpstreamFrames(n) == { Put(b, "event_id", n) : b \in ControlUpstreamBodies }

NextControl ==
    \/ \E data \in ControlFrames(n_events + 1) : ClientRecv(data)
    \/ ClientLangAck
    \/ ClientDisconnect
    \/ \E data \in ControlUpstreamFrames(n_events + 1) : UpstreamRecv(data)
    \/ UpstreamClosed
    \/ BrowserCloses
    \/ OpenaiCloses

SpecControl == Init /\ [][NextControl]_vars

\* C16: an stt.user_final reporting ms >= 0 adds exactly ms to
\* user_speaking_ms and changes no other session field, in the step that
\* reads it; that step sends nothing and leaves the coroutine at its read, and
\* no stt.user_final is ever on the upstream socket.
C16_SpeechTelemetry ==
    /\ [](Positions(openai_sent, "stt.user_final") = {})
    /\ [][ ( /\ ClientReads("stt.user_final")
             /\ "ms" \in DOMAIN c_data'
             /\ c_data'.ms >= 0 )
               => /\ session' = [session EXCEPT !.user_speaking_ms = @ + c_data'.ms]
                  /\ openai_sent' = openai_sent
                  /\ client_sent' = client_sent
                  /\ pc_client' = "recv"
         ]_vars

\* C16 witness: two reports, one of 1 ms and one of a minute, were read and
\* both were added.
C16_Witness ==
    /\ pc_client = "recv"
    /\ FrameType(c_data) = "stt.user_final"
    /\ session.user_speaking_ms = DefaultMinDialogMs + 1

\* The language the specification prescribes for a value: ru when the value,
\* in whatever case, starts with ru; en otherwise.
PrescribedLang(data) ==
    LET value == Get(data, "lang", << >>)
    IN IF Len(value) >= 2 /\ value[1] \in {"r", "R"} /\ value[2] \in {"u", "U"}
       THEN "ru" ELSE "en"

\* The session.update the language lock sends upstream.
LangUpdate(lang) ==
    [type |-> "session.update",
     session |-> [voice |-> IF lang = "ru" THEN "verse" ELSE "alloy",
                  input_audio_transcription |->
                      [model |-> "gpt-4o-mini-transcribe", language |-> lang]]]

\* C17: the step that reads a session.update_lang sets the session's language
\* to the normalized value and sends one session.update with the voice and
\* the transcription language of that value upstream; the next step of the
\* coroutine sends the browser one session.lang.locked with the normalized
\* value; no session.update_lang is ever on the upstream socket.
C17_LanguageLock ==
    /\ [](Positions(openai_sent, "session.update_lang") = {})
    /\ [][ /\ ClientReads("session.update_lang")
               => LET lang == PrescribedLang(c_data') IN
                  /\ session'.lang = lang
                  /\ session'.context.lang = lang
                  /\ client_sent' = client_sent
                  /\ openai_open => /\ Sends(openai_sent, openai_sent', LangUpdate(lang))
                                    /\ pc_client' = "lang_ack"
           /\ ( pc_client = "lang_ack" /\ pc_client' # pc_client )
               => /\ FrameType(c_data) = "session.update_lang"
                  /\ openai_sent' = openai_sent
                  /\ session' = session
                  /\ client_open =>
                        /\ Sends(client_sent, client_sent',
                                 [type |-> "session.lang.locked",
                                  lang |-> PrescribedLang(c_data)])
                        /\ pc_client' = "recv"
         ]_vars

\* C17 witness: the session, Russian from its construction, was switched by
\* a value that starts with neither ru nor en, and the browser has the
\* acknowledgement.
C17_Witness ==
    /\ pc_client = "recv"
    /\ FrameType(c_data) = "session.update_lang"
    /\ Get(c_data, "lang", << >>) = <<"d", "e">>
    /\ session.lang = "en"
    /\ LangUpdate("en") = Last(openai_sent)
    /\ Last(client_sent) = [type |-> "session.lang.locked", lang |-> "en"]

---------------------------------------------------------------------------
\* C18: assistant_speaking is false in the initial state; it becomes true
\* only in the step that handles a response.created; and it is false after
\* every step that handles a response.done and after every step that ends the
\* handling of a browser's response.cancel.  Hence in every reachable state
\* it is true only if a response.created was handled and no response.done or
\* cancel since.
C18_SpeakingWindow ==
    /\ ~session.assistant_speaking
    /\ [][ /\ ( ~session.assistant_speaking /\ session'.assistant_speaking )
               => UpstreamReads("response.created")
           /\ UpstreamReads("response.created") => session'.assistant_speaking
           /\ UpstreamReads("response.done") => ~session'.assistant_speaking
           /\ ( /\ pc_client = "cancel_finally"
                /\ pc_client' # pc_client )
               => ~session'.assistant_speaking
         ]_vars

\* C18 witness: the assistant speaks again, in a response started after the
\* previous one was done.
C18_Witness ==
    /\ session.assistant_speaking
    /\ \E i, j, k \in DOMAIN client_sent :
          /\ i < j /\ j < k
          /\ FrameType(client_sent[i]) = "response.created"
          /\ FrameType(client_sent[j]) = "response.done"
          /\ FrameType(client_sent[k]) = "response.created"

---------------------------------------------------------------------------
\* teardown

\* The places of realtime_websocket inside its try block.
InTry == {"accepted", "candidate", "connect", "connected", "configure", "gather"}

InFinally == {"finally", "finally_db", "finally_pop", "finally_close"}

\* C19: the handler leaves its try block, on whatever path, into finally, and
\* ends only from the last step of finally; when it has ended the registry
\* does not hold the session, the upstream socket, if one was opened, is
\* closed, and the browser's socket is closed.  A write of
\* save_interview_results that raises is logged, the next step of finally
\* follows it, and no step of finally sends the browser anything.
C19_Teardown ==
    /\ [](h_pc = "done" =>
            /\ SessionId \notin realtime_sessions
            /\ openai_ws # Null => ~openai_open
            /\ ~client_open
            /\ db.session # "open")
    /\ [][ /\ ( h_pc \in InTry /\ h_pc' \notin InTry ) => h_pc' = "finally"
           /\ ( h_pc' = "done" /\ h_pc # "done" ) => h_pc = "finally_close"
           /\ ( h_pc \in InFinally /\ h_pc' # h_pc )
               => /\ client_sent' = client_sent
                  /\ h_pc' \in (InFinally \cup {"done"}) \ {"finally"}
           /\ ( saved' # saved /\ Last(saved') = "error" )
               => /\ "Error saving interview results" \in log'
                  /\ h_pc' = "finally_db"
         ]_vars

\* C19 witness: an interview was completed, the browser left, the write of
\* the results raised, and teardown ran to its end.
C19_Witness ==
    /\ h_pc = "done"
    /\ saved = << "error" >>
    /\ openai_ws # Null
    /\ pc_client = "closed"
    /\ realtime_sessions = {}

---------------------------------------------------------------------------
\* the connection under the event loop's scheduling

\* The steps each coroutine takes by itself: the event loop runs every
\* coroutine that is ready.  A frame arriving on a socket, or a socket
\* closing, is the other side's doing, and nothing promises it.
ClientSteps ==
    ClientLangAck \/ ClientCancelFinally \/ ClientForward \/ ClientDisconnect

UpstreamSteps ==
    UpstreamAfterOutput \/ UpstreamAfterProgress \/ UpstreamTail \/ UpstreamClosed

HandlerSteps ==
    \/ LookupCandidate
    \/ \E cfg \in ConnSessions : CreateSession(cfg.scenario, cfg)
    \/ ConnectOpenai
    \/ AnnounceSession
    \/ ConfigureOpenai
    \/ GatherReturns
    \/ FinallySave
    \/ FinallyDbClose
    \/ FinallyDeregister
    \/ FinallyCloseClient

SpecConnFair ==
    /\ SpecConn
    /\ WF_vars(ClientSteps)
    /\ WF_vars(UpstreamSteps)
    /\ WF_vars(HandlerSteps)

\* C21: once the two coroutines run and the browser's socket or the upstream
\* socket is closed, both coroutines end and finally runs to its end, also
\* when nothing more arrives on the other socket.  (A run that has taken all
\* of its MaxEvents arrivals is left aside: what refutes the claim is a run
\* in which more could arrive and nothing does.)
C21_OneEndEndsBoth ==
    ( h_pc = "gather" /\ (~client_open \/ ~openai_open) )
        ~> ( h_pc = "done" \/ n_events = MaxEvents )

---------------------------------------------------------------------------
\* The connect attempt of this connection raised: a session was built and
\* there is no upstream connection, the handler being past the attempt.
ConnectFailed ==
    /\ session # EmptyDict
    /\ openai_ws = Null
    /\ h_pc \in InFinally \cup {"done"}

\* C22: the step in which websockets.connect raises finds the session in the
\* registry and sends the browser, if it is still there, one error event;
\* from then on the browser has at most that one error event and no
\* session.created, neither coroutine is ever started, the handler never
\* comes back to the connect, and when the handler has ended the session is
\* out of the registry.
C22_ConnectError ==
    /\ [](ConnectFailed =>
            /\ Cardinality(Positions(client_sent, "error")) <= 1
            /\ Positions(client_sent, "session.created") = {}
            /\ pc_client = "idle" /\ pc_upstream = "idle"
            /\ ~openai_open
            /\ openai_sent = << >>
            /\ h_pc = "done" => SessionId \notin realtime_sessions)
    /\ [][ /\ ( h_pc = "connect" /\ h_pc' = "finally" )
               => /\ SessionId \in realtime_sessions
                  /\ openai_ws' = Null
                  /\ client_open =>
                        /\ Len(client_sent') = Len(client_sent) + 1
                        /\ FrameType(Last(client_sent')) = "error"
                        /\ Cardinality(Positions(client_sent', "error")) = 1
           /\ ( h_pc' = "connect" /\ h_pc # "connect" ) => h_pc = "candidate"
         ]_vars

\* C22 witness: the connect raised, the browser got its one error event, and
\* the handler has ended.
C22_Witness ==
    /\ ConnectFailed
    /\ h_pc = "done"
    /\ Cardinality(Positions(client_sent, "error")) = 1
    /\ realtime_sessions = {}


---------------------------------------------------------------------------
\* malformed input

\* A step in which a message arrives that cannot be taken in hand as a frame:
\* an arrival is counted, neither coroutine has a new frame and neither socket
\* closed.  (receive_json and json.loads raise on it, before data is bound.)
MalformedArrives ==
    /\ n_events' = n_events + 1
    /\ c_data' = c_data
    /\ u_data' = u_data
    /\ client_open' = client_open
    /\ openai_open' = openai_open

\* C23: a malformed message arriving on either stream is dropped: the
\* coroutine that read it is still reading its stream afterwards, so that
\* later well-formed messages are processed, and the session is unchanged.
C23_MalformedDropped ==
    [][ MalformedArrives
            => /\ pc_client' = pc_client
               /\ pc_upstream' = pc_upstream
               /\ session' = session ]_vars

\* The upstream coroutine reads a tool call whose arguments do not parse.
UnparsableCall ==
    /\ pc_upstream = "recv"
    /\ u_data' # u_data
    /\ FrameType(u_data') = "response.function_call"
    /\ ~FunctionArguments(u_data').ok

\* C24: a tool call whose arguments cannot be parsed is handled as the same
\* call with no arguments: its tool result goes upstream and the upstream
\* coroutine goes on; the failure never ends the coroutine.
C24_UnparsableArguments ==
    [][ UnparsableCall
            => /\ pc_upstream' # "failed"
               /\ Len(openai_sent') = Len(openai_sent) + 1
               /\ FrameType(Last(openai_sent')) = "function_call_output"
               /\ Last(openai_sent').output =
                      handle_function_call(session, FunctionName(u_data'),
                                           EmptyDict).result ]_vars


---------------------------------------------------------------------------
\* the registry under several connections

\* The handlers run on one event loop: between two awaits a handler runs
\* alone, so drawing the id, building the session and storing it in the
\* registry is one step, and so is the pop in finally.

\* The variables of the single connection followed everywhere else.
OneConnection ==
    <<session, pc_client, pc_upstream, c_data, c_sent, u_data, u_result,
      openai_sent, client_sent, client_open, openai_open, n_events, gated,
      at_created, h_pc, db, openai_ws, log, saved>>

SessionIds == 1 .. MaxConns

\* The session ids drawn so far.
Issued == {conns[c].session_id : c \in Conns} \ {NoSession}

\* An id generator that returns the same id every time.
Uuid4Constant(issued) == {1}

\* str(uuid.uuid4()): an id that was not drawn before.
Uuid4(issued) == SessionIds \ issued

\* websocket.accept(): the handler of connection c enters its try.
Accept(c) ==
    /\ conns[c].pc = "idle"
    /\ conns' = [conns EXCEPT ![c].pc = "try"]
    /\ UNCHANGED <<realtime_sessions, found>>
    /\ UNCHANGED OneConnection

\* The handler leaves the try before a session exists: no candidate, or an
\* exception of the lookups.
LeaveEarly(c) ==
    /\ conns[c].pc = "try"
    /\ conns' = [conns EXCEPT ![c].pc = "finally"]
    /\ UNCHANGED <<realtime_sessions, found>>
    /\ UNCHANGED OneConnection

\* session_id = str(uuid.uuid4()); realtime_sessions[session_id] = ...
Register(c) ==
    /\ conns[c].pc = "try"
    /\ \E session_id \in Uuid4(Issued) :
          /\ conns' = [conns EXCEPT ![c] = [pc |-> "live",
                                            session_id |-> session_id]]
          /\ realtime_sessions' = realtime_sessions \cup {session_id}
    /\ UNCHANGED found
    /\ UNCHANGED OneConnection

\* The connect fails, the relay ends or an exception is caught: the handler
\* reaches finally with its session.
Leave(c) ==
    /\ conns[c].pc = "live"
    /\ conns' = [conns EXCEPT ![c].pc = "finally"]
    /\ UNCHANGED <<realtime_sessions, found>>
    /\ UNCHANGED OneConnection

\* finally: realtime_sessions.pop(realtime_session.session_id, None) when
\* there is a session.
Deregister(c) ==
    /\ conns[c].pc = "finally"
    /\ conns' = [conns EXCEPT ![c].pc = "done"]
    /\ realtime_sessions' = IF conns[c].session_id # NoSession
                            THEN realtime_sessions \ {conns[c].session_id}
                            ELSE realtime_sessions
    /\ UNCHANGED found
    /\ UNCHANGED OneConnection

\* GET /session/{session_id}: the session's fields, or 404.
get_session_info(session_id) ==
    /\ found' = [session_id |-> session_id,
                 status |-> IF session_id \in realtime_sessions
                            THEN 200 ELSE 404]
    /\ UNCHANGED <<realtime_sessions, conns>>
    /\ UNCHANGED OneConnection

InitRegistry == Handling("accepted")

NextRegistry ==
    \/ \E c \in Conns : Accept(c)
    \/ \E c \in Conns : LeaveEarly(c)
    \/ \E c \in Conns : Register(c)
    \/ \E c \in Conns : Leave(c)
    \/ \E c \in Conns : Deregister(c)
    \/ \E session_id \in SessionIds : get_session_info(session_id)

SpecRegistry == InitRegistry /\ [][NextRegistry]_vars

\* Connection c has created its session and has not yet removed it.
Holds(c) == conns[c].pc \in {"live", "finally"} /\ conns[c].session_id # NoSession

\* C25: with connections opening and closing side by side, the registry holds
\* exactly the sessions of the connections between their session creation and
\* their teardown; no two such connections have the same session id; the
\* teardown of one connection leaves every other connection's entry in place;
\* and a lookup of the id of a torn-down connection answers not-found.
C25_Registry ==
    /\ [] /\ realtime_sessions =
                {conns[c].session_id : c \in {d \in Conns : Holds(d)}}
          /\ \A c, d \in Conns :
                Holds(c) /\ Holds(d) /\ c # d
                    => conns[c].session_id # conns[d].session_id
    /\ [][ /\ \A c, d \in Conns :
                 Holds(c) /\ conns'[c].pc = "done" /\ c # d /\ Holds(d)
                     => conns'[d].session_id \in realtime_sessions'
           /\ found' # found
                 => ( (\E c \in Conns : /\ conns[c].pc = "done"
                                        /\ conns[c].session_id = found'.session_id)
                          => found'.status = 404 )
         ]_vars

\* Two connections hold their sessions while a third has been torn down and
\* the lookup of its id answered 404.
C25_Witness ==
    \E c, d, e \in Conns :
        /\ c # d
        /\ Holds(c)
        /\ Holds(d)
        /\ conns[e].pc = "done"
        /\ found.session_id = conns[e].session_id
        /\ found.status = 404


---------------------------------------------------------------------------
\* the private context of the session configuration

\* A missing key and a falsy value take the same branches in
\* build_private_context (x.get(k) or ..., if x:), so a row carries every key
\* and "", 0 or the empty list stand for its absence.

Whitespace == {" "}

\* str.strip()
Strip(str) ==
    LET solid == {i \in 1..Len(str) : str[i] \notin Whitespace}
        first == CHOOSE i \in solid : \A j \in solid : i <= j
        last == CHOOSE i \in solid : \A j \in solid : j <= i
    IN IF solid = {} THEN << >> ELSE SubSeq(str, first, last)

\* _compact_list: the first n of the items that are not blank, stripped.
compact_list(items, n) ==
    LET stripped == [i \in 1..Len(items) |-> Strip(items[i])]
        kept == SelectSeq(stripped, LAMBDA item : item # << >>)
    IN SubSeq(kept, 1, Min(n, Len(kept)))

\* The competences of a scenario list's entries, str(q["competence"]) as the
\* characters of the name.
CompetenceStr(competence) ==
    CASE competence = "intro" -> <<"i", "n", "t", "r", "o">>
      [] competence = "stack" -> <<"s", "t", "a", "c", "k">>
      [] competence = "final" -> <<"f", "i", "n", "a", "l">>
      [] OTHER -> <<"c">>

ScenarioCompetences(raw_scenario) ==
    LET named == SelectSeq(raw_scenario, LAMBDA q : q.competence # "")
    IN [i \in 1..Len(named) |-> CompetenceStr(named[i].competence)]

\* One line of the context: its label and what follows it.
Line(label, value) == [label |-> label, value |-> value]

\* The lines of the context for a role, years, keywords, skills, competences.
ContextLines(role, exp_years, jd_keywords, skills, competences) ==
    (IF role # "" THEN << Line("Role", role) >> ELSE << >>)
    \o (IF exp_years # 0 THEN << Line("Experience", exp_years) >> ELSE << >>)
    \o (IF jd_keywords # << >>
        THEN << Line("JD must-have", compact_list(jd_keywords, 12)) >> ELSE << >>)
    \o (IF skills # << >>
        THEN << Line("Candidate skills", compact_list(skills, 12)) >> ELSE << >>)
    \o (IF competences # << >>
        THEN << Line("Scenario competences", compact_list(competences, 8)) >>
        ELSE << >>)

\* A context that also quotes the resume.
BuildPrivateContextWithCv(resume_tags, vacancy_json, lang) ==
    << Line("CV", resume_tags.cv_text) >>

\* build_private_context: the lines it joins.
build_private_context(resume_tags, vacancy_json, lang) ==
    LET skills == compact_list(IF resume_tags.skills # << >>
                               THEN resume_tags.skills
                               ELSE resume_tags.tech_stack, 10)
        exp_years == IF resume_tags.experience_years # 0
                     THEN resume_tags.experience_years
                     ELSE resume_tags.exp_years
        jd_keywords == compact_list(vacancy_json.keywords, 10)
        role == IF vacancy_json.title # "" THEN vacancy_json.title
                ELSE vacancy_json.role
        competences == ScenarioCompetences(vacancy_json.scenario)
    IN ContextLines(role, exp_years, jd_keywords, skills, competences)

\* get_greeting at the given hour of the day.
get_greeting(lang, hour) ==
    IF lang = "ru"
    THEN IF hour < 12 THEN "Dobroe utro"
         ELSE IF hour < 18 THEN "Dobryi den" ELSE "Dobryi vecher"
    ELSE IF hour < 12 THEN "Good morning"
         ELSE IF hour < 18 THEN "Good afternoon" ELSE "Good evening"

\* The numbered questions create_session_config writes into the instructions:
\* the first twelve entries, those with a question.
ScenarioQuestions(scenario) ==
    LET head == SubSeq(scenario, 1, Min(12, Len(scenario)))
        asked == {i \in 1..Len(head) : head[i].question # ""}
    IN IF Len(scenario) = 0 THEN "default questions"
       ELSE [i \in asked |-> head[i]]

\* create_session_config: the parts of the configuration that are not the same
\* for every session.  The instructions are the template's text with its fields;
\* PRIVATE_CONTEXT and TOTAL_Q are the placeholders it leaves in.
create_session_config(resume_text, jd_text, scenario, lang, hour) ==
    [ voice |-> IF lang = "en" THEN "alloy" ELSE "verse",
      instructions |->
          [ lang_name |-> IF lang = "ru" THEN "russkom" ELSE "angliiskom",
            private |-> "{PRIVATE_CONTEXT}",
            total_q |-> "{TOTAL_Q}",
            scenario |-> ScenarioQuestions(scenario),
            start |-> get_greeting(lang, hour) ],
      input_audio_transcription |->
          [ language |-> IF lang = "ru" THEN "ru" ELSE "en" ] ]

\* The session.update frame realtime_websocket sends for the rows it loaded.
SessionUpdate(rows, s, hour) ==
    LET session_config == create_session_config("", "", s.scenario, rows.lang, hour)
        private_context == build_private_context(rows.tags, rows.jd_json, rows.lang)
    IN [ type |-> "session.update",
         session |-> [session_config EXCEPT
                          !.instructions.private = private_context,
                          !.instructions.total_q = s.total_questions] ]

RawTexts == {"", "raw text one", "raw text two"}

CandidateTags ==
    [ cv_text : RawTexts,
      skills : { << >>, << <<"g", "o">>, <<" ">>, <<" ", "s", "q", "l", " ">> >> },
      tech_stack : { << >>, << <<"c">> >> },
      experience_years : {0, 5},
      exp_years : {0, 3} ]

VacancyJsons ==
    [ text : RawTexts,
      keywords : { << >>, << <<"a", "p", "i">> >> },
      title : {"", "Backend developer"},
      role : {"", "Engineer"},
      scenario : { << >>, OnePrimary } ]

\* db.get of the candidate and of the vacancy, and the language of the query,
\* normalised and stored in candidate.lang.
LoadRows ==
    /\ h_pc = "accepted"
    /\ \E tags \in CandidateTags, jd_json \in VacancyJsons, lang \in {"ru", "en"} :
          db' = [session |-> "open", tags |-> tags, jd_json |-> jd_json,
                 lang |-> lang]
    /\ h_pc' = "candidate"
    /\ UNCHANGED <<session, openai_sent, client_sent, client_open, openai_open,
                   realtime_sessions, openai_ws, log>>
    /\ UNCHANGED HandlerLoop

\* session.update goes upstream.
SendSessionUpdate ==
    /\ h_pc = "configure"
    /\ openai_open
    /\ openai_sent = << >>
    /\ \E hour \in {9, 15, 21} :
          openai_sent' = << SessionUpdate(db, session, hour) >>
    /\ UNCHANGED <<session, client_sent, client_open, openai_open,
                   realtime_sessions, db, openai_ws, log, h_pc>>
    /\ UNCHANGED HandlerLoop

InitPrivacy == Handling("accepted")

NextPrivacy ==
    \/ LoadRows
    \/ CreateSession(db.jd_json.scenario,
                     [min_primary_required |-> DefaultMinPrimaryRequired,
                      min_dialog_ms |-> DefaultMinDialogMs])
    \/ ConnectOpenai
    \/ AnnounceSession
    \/ SendSessionUpdate

SpecPrivacy == InitPrivacy /\ [][NextPrivacy]_vars

\* The rows with other raw texts in place of theirs.
WithRawTexts(rows, cv_text, text) ==
    [rows EXCEPT !.tags.cv_text = cv_text, !.jd_json.text = text]

\* C26: the session.update frame that goes upstream is the one that would go
\* upstream for the same candidate and vacancy with any other raw resume text
\* and raw job-description text (same skills, years, keywords, title,
\* scenario, language and hour of the day): configuration and instructions
\* do not depend on the raw texts.
C26_PrivacyFilter ==
    [][ ( openai_sent = << >> /\ openai_sent' # << >> )
            => \E hour \in {9, 15, 21} :
                  \A cv_text, text \in RawTexts :
                      openai_sent'[1] =
                          SessionUpdate(WithRawTexts(db, cv_text, text),
                                        session, hour) ]_vars

\* A session.update went upstream for a candidate and a vacancy that have raw
\* texts, with a private context of all five lines.
C26_Witness ==
    /\ h_pc = "configure"
    /\ openai_sent # << >>
    /\ db.tags.cv_text # ""
    /\ db.jd_json.text # ""
    /\ Len(openai_sent[1].session.instructions.private) = 5


---------------------------------------------------------------------------
\* the half-duplex gate over a whole response

\* What the upstream endpoint sends: response r1 with its audio.done before its
\* done, or response r1 cancelled on its side and followed by response r2,
\* the done of r1 arriving after r2 began.
BargeCreated(id) == [type |-> "response.created", response |-> [id |-> id]]

BargeDone(id, status) ==
    [type |-> "response.done", response |-> [id |-> id, status |-> status]]

BargeAudioDone(id) == [type |-> "response.audio.done", response_id |-> id]

\* The frame without the number of its arrival.
Body(data) == [k \in (DOMAIN data) \ {"event_id"} |-> data[k]]

\* The frames that can follow the frame proxy_openai_to_client holds.
BargeFollows(data) ==
    IF data = EmptyDict THEN { BargeCreated("r1") }
    ELSE IF Body(data) = BargeCreated("r1")
    THEN { BargeAudioDone("r1"), BargeCreated("r2") }
    ELSE IF Body(data) = BargeAudioDone("r1") THEN { BargeDone("r1", "completed") }
    ELSE IF Body(data) = BargeCreated("r2") THEN { BargeDone("r1", "cancelled") }
    ELSE IF Body(data) = BargeDone("r1", "cancelled")
    THEN { BargeDone("r2", "completed") }
    ELSE {}

\* The browser sends audio and what neither cancels nor creates a response.
BargeClientBodies ==
    { [type |-> "input_audio_buffer.append"],
      [type |-> "stt.user_final", ms |-> 60000],
      [type |-> "conversation.item.create"] }

NextBarge ==
    \/ \E b \in BargeClientBodies : ClientRecv(Put(b, "event_id", n_events + 1))
    \/ \E b \in BargeFollows(u_data) : UpstreamRecv(Put(b, "event_id", n_events + 1))

SpecBarge == Init /\ [][NextBarge]_vars

\* proxy_openai_to_client has handled the response.created of a response and
\* not yet the response.done of that response: r1 up to its audio.done, r2 up
\* to the done of the cancelled r1.
BargeWindow ==
    /\ u_data # EmptyDict
    /\ Body(u_data) \in { BargeCreated("r1"), BargeAudioDone("r1"),
                          BargeCreated("r2"), BargeDone("r1", "cancelled") }

\* C27: from the step in which proxy_openai_to_client handles the
\* response.created of a response until it handles the response.done of that
\* response (the browser cancels nothing here), every
\* input_audio_buffer.append the browser sends is dropped by the gate and not
\* forwarded upstream, whatever else arrives from upstream in between.
C27_BargeInSuppressed ==
    [][ ( /\ BargeWindow
          /\ c_data' # c_data
          /\ FrameType(c_data') = "input_audio_buffer.append" )
            => /\ c_data'.event_id \in gated'
               /\ openai_sent' = openai_sent ]_vars


---------------------------------------------------------------------------
\* the audio of a cancelled response

\* Upstream begins response r1 and then sends a piece of its audio.
CancelFollows(data) ==
    IF data = EmptyDict THEN { BargeCreated("r1") }
    ELSE IF Body(data) = BargeCreated("r1")
    THEN { [type |-> "response.audio.delta", response_id |-> "r1"],
           [type |-> "response.audio.delta", response |-> [id |-> "r1"]] }
    ELSE {}

\* The browser cancels, or asks for a new response.
CancelClientBodies == { [type |-> "response.cancel"], [type |-> "response.create"] }

NextCancel ==
    \/ \E b \in CancelClientBodies : ClientRecv(Put(b, "event_id", n_events + 1))
    \/ ClientCancelFinally
    \/ ClientForward
    \/ \E b \in CancelFollows(u_data) : UpstreamRecv(Put(b, "event_id", n_events + 1))

SpecCancel == Init /\ [][NextCancel]_vars

\* proxy_client_to_openai has handled a cancel of r1: after the
\* response.created of r1 was handled and before anything else came from
\* upstream, it read a response.cancel and went through its finally, or it
\* read a response.create and sent the cancel that precedes it.
CancelledR1 ==
    /\ u_data # EmptyDict
    /\ Body(u_data) = BargeCreated("r1")
    /\ c_data # EmptyDict
    /\ c_data.event_id > u_data.event_id
    /\ \/ FrameType(c_data) = "response.cancel" /\ pc_client = "recv"
       \/ /\ FrameType(c_data) = "response.create"
          /\ pc_client \in {"forward", "recv"}
    /\ Positions(openai_sent, "response.cancel") # {}

\* C28: once proxy_client_to_openai has handled a cancel of response r1, by
\* a response.cancel of the browser or by the cancel sent before a new
\* response.create, a response.audio.delta of r1 that arrives from upstream
\* is not forwarded to the browser.
C28_CancelledAudio ==
    [][ ( /\ CancelledR1
          /\ u_data' # u_data
          /\ FrameType(u_data') = "response.audio.delta"
          /\ ResponseId(u_data') = "r1" )
            => client_sent' = client_sent ]_vars


---------------------------------------------------------------------------
\* question_asked with every index and is_primary

\* The is_primary argument of a call: left out, true or false.
QuestionArguments ==
    { [index |-> index] : index \in 1..Len(OnePrimary) }
      \cup [ index : 1..Len(OnePrimary), is_primary : BOOLEAN ]

QuestionBodies ==
    { BargeCreated("r1") }
      \cup { FunctionCall("question_asked", JsonText(args)) : args \in QuestionArguments }

NextQuestion ==
    \/ \E b \in QuestionBodies : UpstreamRecv(Put(b, "event_id", n_events + 1))
    \/ UpstreamAfterOutput
    \/ UpstreamAfterProgress
    \/ UpstreamTail

SpecQuestion == Init /\ [][NextQuestion]_vars

\* proxy_openai_to_client is about to track the first question_asked call of
\* the response in progress, and the call's index names a scenario entry.
QuestionMarking ==
    /\ pc_upstream = "fc_output_sent"
    /\ FunctionName(u_data) = "question_asked"
    /\ ~session.question_marked
    /\ session.active_response_id # Null
    /\ FunctionArguments(u_data).value.index \in 1..Len(session.scenario)

\* The scenario entry the call in hand names is neither intro nor final.
NamesPrimary ==
    session.scenario[FunctionArguments(u_data).value.index].competence
        \notin NonPrimary

\* C29: the first question_asked call of a response, for every in-range
\* index and with is_primary true, false or left out, increments
\* answered_primary exactly when the scenario entry the index names has a
\* competence other than intro and final; a call that names an intro or final
\* entry changes neither answered_primary nor current_question and sends no
\* progress.update.
C29_PrimaryByScenario ==
    [][ QuestionMarking
            => /\ (session'.answered_primary = session.answered_primary + 1)
                      <=> NamesPrimary
               /\ ~NamesPrimary
                      => /\ session'.answered_primary = session.answered_primary
                         /\ session'.current_question = session.current_question
                         /\ Positions(client_sent', "progress.update")
                                = Positions(client_sent, "progress.update") ]_vars

\* C30: the first question_asked call of a response for a primary question
\* increments answered_primary by one, sets current_question to
\* min(current_question + 1, total_questions) and sends the browser one
\* progress.update with the resulting current_question and total_questions,
\* also when current_question was total_questions already.
C30_ProgressEveryPrimary ==
    [][ ( QuestionMarking /\ NamesPrimary /\ client_open )
            => /\ session'.answered_primary = session.answered_primary + 1
               /\ session'.current_question =
                      Min(session.current_question + 1, session.total_questions)
               /\ Len(client_sent') = Len(client_sent) + 1
               /\ Last(client_sent') =
                      [type |-> "progress.update",
                       current |-> session'.current_question,
                       total |-> session.total_questions] ]_vars


---------------------------------------------------------------------------
\* the auto-finish trigger

\* This step puts the auto-finish instruction on the upstream socket.
SendsAutoFinish == Cardinality(AutoFinishSent') = Cardinality(AutoFinishSent) + 1

\* This step ends the progress tracking of the first question_asked call of a
\* response with the auto-finish check: the tracking step itself when
\* current_question stays and no progress.update is due, the step after the
\* progress.update otherwise.
ChecksAutoFinish ==
    \/ /\ pc_upstream = "fc_output_sent"
       /\ FunctionName(u_data) = "question_asked"
       /\ ~session.question_marked
       /\ pc_upstream' # "fc_output_sent"
       /\ session'.current_question = session.current_question
    \/ pc_upstream = "qa_progress_sent" /\ pc_upstream' # "qa_progress_sent"

\* C31: the auto-finish instruction goes upstream only in a step that leaves
\* current_question >= total_questions, interview_completed not true,
\* answered_primary >= min_primary_required and user_speaking_ms >=
\* min_dialog_ms; it goes upstream in every step that checks the trigger for
\* a first-per-response question_asked call in such a state (the upstream
\* socket being open); and it never goes upstream once interview_completed
\* is true.
C31_AutoFinish ==
    [][ /\ SendsAutoFinish
            => /\ ChecksAutoFinish
               /\ session'.current_question >= session'.total_questions
               /\ ~InterviewCompleted(session')
               /\ session'.answered_primary >= session'.min_primary_required
               /\ session'.user_speaking_ms >= session'.min_dialog_ms
               /\ ~InterviewCompleted(session)
        /\ ( ChecksAutoFinish /\ AutoFinishDue(session') /\ openai_open )
            => /\ SendsAutoFinish
               /\ Last(openai_sent') = AutoFinishFrame
      ]_vars

\* The instruction went upstream for a session that needs a minute of speech,
\* and the browser got the progress.update before it.
C31_Witness ==
    /\ AutoFinishSent # {}
    /\ session.min_dialog_ms = DefaultMinDialogMs
    /\ session.user_speaking_ms >= DefaultMinDialogMs
    /\ Positions(client_sent, "progress.update") # {}
    /\ ~InterviewCompleted(session)


---------------------------------------------------------------------------
\* the two coroutines on one session

\* proxy_client_to_openai stands between the send of a response.cancel and
\* its finally clause, and proxy_openai_to_client has meanwhile handled a
\* response.created that arrived after that response.cancel.
CreatedDuringCancel ==
    /\ pc_client = "cancel_finally"
    /\ u_data # EmptyDict
    /\ FrameType(u_data) = "response.created"
    /\ u_data.event_id > c_data.event_id
    /\ session.assistant_speaking
    /\ session.active_response_id = ResponseId(u_data)

\* C32: what one coroutine wrote into the session is not undone by the other
\* coroutine finishing a message it had read before that write: the
\* assistant_speaking and active_response_id that proxy_openai_to_client set
\* on response.created survive the end of proxy_client_to_openai's handling
\* of an earlier response.cancel.
C32_WriteNotUndone ==
    [][ ( CreatedDuringCancel /\ pc_client' # pc_client )
            => /\ session'.assistant_speaking = session.assistant_speaking
               /\ session'.active_response_id = session.active_response_id
      ]_vars


---------------------------------------------------------------------------
\* order within each direction

\* The places of the frames a coroutine passed on from the other side: they
\* carry the number of their arrival; what a coroutine made up itself
\* (response.cancel, session.update, function_call_output, progress.update,
\* the rebuilt response.created, ...) does not.
Forwarded(sent) == {i \in DOMAIN sent : "event_id" \in DOMAIN sent[i]}

\* The frame is what arrived under its number from the given side, but for
\* the response_id the delta filter writes into a response.audio.delta.
ArrivedAs(frame, frames) ==
    \E data \in frames :
        /\ DOMAIN data \subseteq DOMAIN frame
        /\ \A k \in DOMAIN data : frame[k] = data[k]
        /\ (DOMAIN frame) \ (DOMAIN data) # {}
              => /\ FrameType(frame) = "response.audio.delta"
                 /\ (DOMAIN frame) \ (DOMAIN data) = {"response_id"}

\* C33: what proxy_client_to_openai passed upstream lies on the upstream
\* socket in the order of its arrival from the browser, and what
\* proxy_openai_to_client passed to the browser lies on the browser's socket
\* in the order of its arrival from upstream: each passed frame is a frame
\* that arrived, none lies there twice, none before an earlier one.
C33_OrderPreserved ==
    /\ \A i, j \in Forwarded(openai_sent) :
          i < j => openai_sent[i].event_id < openai_sent[j].event_id
    /\ \A i \in Forwarded(openai_sent) :
          ArrivedAs(openai_sent[i], ClientFrames(openai_sent[i].event_id))
    /\ \A i, j \in Forwarded(client_sent) :
          i < j => client_sent[i].event_id < client_sent[j].event_id
    /\ \A i \in Forwarded(client_sent) :
          ArrivedAs(client_sent[i], UpstreamFrames(client_sent[i].event_id))

\* Two frames from upstream lie on the browser's socket and one frame of the
\* browser, which arrived between them, lies on the upstream socket.
C33_Witness ==
    \E i, j \in Forwarded(client_sent), k \in Forwarded(openai_sent) :
        /\ i < j
        /\ client_sent[i].event_id < openai_sent[k].event_id
        /\ openai_sent[k].event_id < client_sent[j].event_id


---------------------------------------------------------------------------
\* evaluate_answer

\* proxy_openai_to_client holds an evaluate_answer call whose tool result
\* went upstream.
EvaluateAnswerInHand ==
    /\ pc_upstream = "fc_output_sent"
    /\ FunctionName(u_data) = "evaluate_answer"

\* C34: the step that handles an evaluate_answer{score, reasoning} call
\* appends one entry (current_question, score, reasoning) to session.scores,
\* changes no other field of the session, and sends upstream one
\* function_call_output of status "success"; neither that step nor the rest
\* of the call's handling sends the browser a progress.update or an
\* interview.completed or changes the session; and no step removes or changes
\* an entry of session.scores.
C34_EvaluateAnswer ==
    [][ /\ UpstreamCalls("evaluate_answer")
            => LET arguments == FunctionArguments(u_data').value IN
               /\ session' = [session EXCEPT !.scores = Append(@,
                                  [question |-> session.current_question,
                                   score |-> arguments.score,
                                   reasoning |-> arguments.reasoning])]
               /\ Sends(openai_sent, openai_sent',
                        [type |-> "function_call_output",
                         call_id |-> u_data'.call_id,
                         output |-> u_result'])
               /\ u_result'.status = "success"
               /\ client_sent' = client_sent
        /\ ( EvaluateAnswerInHand /\ pc_upstream' # pc_upstream )
            => /\ session' = session
               /\ openai_sent' = openai_sent
               /\ Positions(client_sent', "progress.update")
                      = Positions(client_sent, "progress.update")
               /\ Positions(client_sent', "interview.completed")
                      = Positions(client_sent, "interview.completed")
        /\ Len(session'.scores) >= Len(session.scores)
        /\ SubSeq(session'.scores, 1, Len(session.scores)) = session.scores
      ]_vars

\* Two evaluate_answer calls were handled to the end: two entries, the frame
\* of the second passed on to the browser.
C34_Witness ==
    /\ Len(session.scores) = 2
    /\ pc_upstream = "recv"
    /\ FunctionName(u_data) = "evaluate_answer"
    /\ Last(client_sent) = u_data


---------------------------------------------------------------------------
\* the two progress counters

\* C35: in every state current_question = min(answered_primary,
\* total_questions): the counters move together until current_question
\* stops at total_questions.
C35_CountersAgree ==
    session.current_question = Min(session.answered_primary, session.total_questions)

\* The clamp has held current_question back: more primary questions were
\* asked than the session has.
C35_Witness ==
    /\ session.answered_primary > session.total_questions
    /\ session.current_question = session.total_questions


---------------------------------------------------------------------------
\* the two fields of the active response

\* C36: every response.created carrying an id (in its response object or as
\* response_id), assistant_speaking is true exactly when active_response_id
\* is not None, in every state: both coroutines set and clear the two fields
\* together.
C36_SpeakingIffActive ==
    session.assistant_speaking <=> session.active_response_id # Null

\* A response whose id came as response_id is active, after the browser
\* cancelled an earlier one.
C36_Witness ==
    /\ session.assistant_speaking
    /\ session.active_response_id = "r2"
    /\ Positions(openai_sent, "response.cancel") # {}
    /\ pc_client = "recv"


---------------------------------------------------------------------------
\* the gate of the verdict

\* C37: in every state interview_completed implies answered_primary >=
\* min_primary_required and user_speaking_ms >= min_dialog_ms; and no step
\* takes interview_completed back, lowers answered_primary or
\* user_speaking_ms, or changes the two thresholds: a gate that opened stays
\* open.
C37_GateStaysOpen ==
    /\ [] ( InterviewCompleted(session) => ~BelowThresholds(session) )
    /\ [][ /\ InterviewCompleted(session) => InterviewCompleted(session')
           /\ session'.answered_primary >= session.answered_primary
           /\ session'.user_speaking_ms >= session.user_speaking_ms
           /\ session'.min_primary_required = session.min_primary_required
           /\ session'.min_dialog_ms = session.min_dialog_ms
         ]_vars

\* The interview of a session that needs a minute of speech was completed
\* and the call's handling is over.
C37_Witness ==
    /\ InterviewCompleted(session)
    /\ session.min_dialog_ms = DefaultMinDialogMs
    /\ session.user_speaking_ms >= DefaultMinDialogMs
    /\ session.answered_primary >= session.min_primary_required
    /\ pc_upstream = "recv"


---------------------------------------------------------------------------
\* the tool result of every call

\* proxy_openai_to_client is in the middle of a function call's handling.
CallInHand == pc_upstream \in {"fc_output_sent", "qa_progress_sent", "fc_tail"}

\* C38: the step that reads a response.function_call whose arguments parse
\* sends upstream one function_call_output with the call's call_id and the
\* handler's result, and nothing to the browser; the later steps of the
\* call's handling, which send the browser interview.completed,
\* progress.update or the call's frame, send no further function_call_output
\* (and no step outside a call's handling sends the browser
\* interview.completed or progress.update);
\* and for question_asked and for a tool name the handler does not know the
\* result has status "error" and the reading step leaves the session as it
\* was.
C38_ToolResultFirst ==
    [][ /\ ( UpstreamReads("response.function_call")
             /\ FunctionArguments(u_data').ok )
            => /\ Sends(openai_sent, openai_sent',
                        [type |-> "function_call_output",
                         call_id |-> u_data'.call_id,
                         output |-> u_result'])
               /\ client_sent' = client_sent
               /\ CallInHand'
               /\ FunctionName(u_data') \notin {"evaluate_answer", "end_interview"}
                      => /\ u_result'.status = "error"
                         /\ session' = session
        /\ ( CallInHand /\ pc_upstream' # pc_upstream )
            => /\ Positions(openai_sent', "function_call_output")
                      = Positions(openai_sent, "function_call_output")
               /\ u_data' = u_data
        /\ ( pc_upstream = "recv" /\ pc_upstream' = pc_upstream )
            => \A type \in {"interview.completed", "progress.update"} :
                  Positions(client_sent', type) = Positions(client_sent, type)
      ]_vars

\* A call of a tool the handler does not know was handled to the end: its
\* error result upstream, its frame at the browser.
C38_Witness ==
    /\ pc_upstream = "recv"
    /\ FunctionName(u_data) = "other_tool"
    /\ Last(client_sent) = u_data
    /\ \E i \in Positions(openai_sent, "function_call_output") :
          /\ openai_sent[i].output.status = "error"
          /\ openai_sent[i].call_id = u_data.call_id


---------------------------------------------------------------------------
\* session.created

\* The browser was told that the candidate does not exist.
CandidateNotFound ==
    \E i \in Positions(client_sent, "error") :
        client_sent[i].error.message = "candidate_not_found"

\* C39: the browser gets at most one session.created on a connection; the
\* step that sends it finds the upstream connection established; every other
\* frame but an error event reaches the browser after it; and when the
\* candidate is not found, the browser has one error event and no
\* session.created, no session was built or registered and no upstream
\* connection was opened.
C39_SessionCreated ==
    /\ [] /\ Cardinality(Positions(client_sent, "session.created")) <= 1
          /\ \A i \in DOMAIN client_sent :
                FrameType(client_sent[i]) \notin {"session.created", "error"}
                    => \E j \in Positions(client_sent, "session.created") : j < i
          /\ CandidateNotFound
                => /\ Cardinality(Positions(client_sent, "error")) = 1
                   /\ Positions(client_sent, "session.created") = {}
                   /\ session = EmptyDict
                   /\ realtime_sessions = {}
                   /\ openai_ws = Null
                   /\ ~openai_open
                   /\ openai_sent = << >>
    /\ [][ Positions(client_sent', "session.created")
               # Positions(client_sent, "session.created")
              => /\ openai_ws = "ws"
                 /\ SessionId \in realtime_sessions
                 /\ pc_upstream = "idle"
         ]_vars

\* session.created is the first frame the browser got, and a frame from
\* upstream was passed on after it.
C39_Witness ==
    /\ h_pc = "gather"
    /\ Len(client_sent) >= 2
    /\ FrameType(client_sent[1]) = "session.created"
    /\ Forwarded(client_sent) # {}


---------------------------------------------------------------------------
\* the progress.update events of a session

\* The progress.update events on the browser's socket before place i.
UpdatesBefore(i) == {j \in Positions(client_sent, "progress.update") : j < i}

\* C40: the progress.update events the browser gets in a session carry the
\* current values 1, 2, ..., k, each one more than the one before, with k <=
\* total_questions, and all carry the session's total_questions as total:
\* none is repeated and none is skipped.
C40_ProgressSteps ==
    \A i \in Positions(client_sent, "progress.update") :
        /\ client_sent[i].current = Cardinality(UpdatesBefore(i)) + 1
        /\ client_sent[i].current <= session.total_questions
        /\ client_sent[i].total = session.total_questions

\* The browser got a second progress.update.
C40_Witness ==
    \E i, j \in Positions(client_sent, "progress.update") :
        /\ i < j
        /\ client_sent[i].current = 1
        /\ client_sent[j].current = 2

====
